---- MODULE Spec2Model ----
(***************************************************************************)
(* Lunex DEX: the constant-product pool.                                   *)
(*                                                                         *)
(* The repository holds two implementations of the pool with the same      *)
(* fields (reserve_0, reserve_1, total_supply, balances, unlocked):        *)
(*   - PairContract        src/uniswap-v2/contracts/pair/lib.rs            *)
(*   - SecurePairContract  src/tests/security_tests.rs                     *)
(* The variable `contract` says which of the two was constructed; it never *)
(* changes.  Each handler is one operator from a pool value to the pool    *)
(* value it leaves behind and what it returns; a `?` of the source is an   *)
(* early return with the pool value as mutated so far.  The pool is the    *)
(* struct the handlers are called on, as in the unit tests of both files.  *)
(*                                                                         *)
(* Balance is u128 in the source.  TLC's integers are 32 bits wide, so the *)
(* word is WordBits wide here and every checked_* operator tests against   *)
(* U128_MAX = 2^WordBits - 1 without forming the overflowing value.        *)
(***************************************************************************)
EXTENDS Integers, Sequences, FiniteSets, TLC

VARIABLES
    contract,                  \* which implementation was constructed
    reserve_0, reserve_1,      \* both
    total_supply,              \* both
    balances,                  \* both: holder -> shares (absent = 0)
    unlocked,                  \* both: the reentrancy guard (TRUE = free)
    k_last,                    \* SecurePairContract
    block_timestamp_last,      \* PairContract
    price_0_cumulative_last,   \* PairContract
    price_1_cumulative_last,   \* PairContract
    block_timestamp,           \* the environment's clock (env().block_timestamp())
    op,                        \* the last call made: its name and arguments
    ret,                       \* what the last call returned
    minted,                    \* history: some mint has returned Ok
    drained,                   \* history: after a mint, a call left both reserves at 0
    ecosystem,                 \* the LunexEcosystem of the integration test
    factory,                   \* the FactoryContract
    wnative,                   \* the WnativeContract and its native balance
    staking,                   \* the StakingContract with its clock and native balance
    trading_rewards,           \* the TradingRewardsContract and its clock
    secure_router,             \* the SecureRouterContract
    credited,                  \* history: the total that distributions added to pending_rewards
    steps                      \* number of calls made so far

vars == <<contract, reserve_0, reserve_1, total_supply, balances, unlocked, k_last,
          block_timestamp_last, price_0_cumulative_last, price_1_cumulative_last,
          block_timestamp, op, ret, minted, drained, ecosystem, factory, wnative, staking, trading_rewards, secure_router, credited, steps>>

\* The pool's variables, which the calls on the other contracts leave alone.
pool_vars == <<contract, reserve_0, reserve_1, total_supply, balances, unlocked, k_last,
               block_timestamp_last, price_0_cumulative_last, price_1_cumulative_last,
               block_timestamp, minted, drained>>

---------------------------------------------------------------------------
\* Bounds of the model.

WordBits == 29
MaxSteps == 4
MaxTime == 65538

---------------------------------------------------------------------------
\* Program constants.

U128_MAX == 2^WordBits - 1
\* 2^112 in a 128-bit word: sixteen bits of headroom above the scale.
UQ112 == 2^(WordBits - 16)
MINIMUM_LIQUIDITY == 100
PLACEHOLDER_BALANCE == 1000
SECURE_MINIMUM_LIQUIDITY == 100
SECURE_FEE_NUMERATOR == 997
SECURE_FEE_DENOMINATOR == 1000

ZERO_ADDRESS == "0x0"
\* env().account_id(): the pool's own account.
CONTRACT == "pair"
Accounts == {ZERO_ADDRESS, CONTRACT, "user1"}

None == -1

---------------------------------------------------------------------------
\* u128 checked arithmetic (core::num): None on overflow, underflow, division by 0.

checked_add(a, b) == IF b <= U128_MAX - a THEN a + b ELSE None
checked_sub(a, b) == IF b <= a THEN a - b ELSE None
checked_mul(a, b) == IF a = 0 \/ b <= U128_MAX \div a THEN a * b ELSE None
checked_div_rounding_up(a, b) == IF b = 0 THEN None ELSE (a + b - 1) \div b
checked_div(a, b) == IF b = 0 THEN None ELSE a \div b
max_instead_of_min(a, b) == IF a < b THEN b ELSE a
min(a, b) == IF a < b THEN a ELSE b
\* The sum of f over the set S.
RECURSIVE SumOver(_, _)
SumOver(f, S) ==
    IF S = {} THEN 0 ELSE LET a == CHOOSE x \in S : TRUE IN f[a] + SumOver(f, S \ {a})

---------------------------------------------------------------------------
\* What a handler hands back: the pool it leaves and its Result.

Ok(s, x, y) == [st |-> s, ok |-> TRUE, err |-> "", v0 |-> x, v1 |-> y]
Err(s, e) == [st |-> s, ok |-> FALSE, err |-> e, v0 |-> 0, v1 |-> 0]

\* The reentrancy guard (the same code in both implementations).
lock_never_rejects(s) == [ok |-> TRUE, st |-> [s EXCEPT !.unlocked = FALSE]]
lock(s) ==
    IF ~s.unlocked THEN [ok |-> FALSE, st |-> s]
    ELSE [ok |-> TRUE, st |-> [s EXCEPT !.unlocked = FALSE]]

unlock(s) == [s EXCEPT !.unlocked = TRUE]

---------------------------------------------------------------------------
\* SecurePairContract (src/tests/security_tests.rs)

RECURSIVE secure_sqrt_loop(_, _, _)
secure_sqrt_loop(value, x, y) ==
    IF y < x THEN secure_sqrt_loop(value, y, (value \div y + y) \div 2) ELSE x

\* `(value + 1) / 2` is plain u128 arithmetic: for value = u128::MAX the sum does
\* not fit.  A build with overflow checks panics on it; a build without them wraps
\* the sum to 0, so y = 0, x = 0 and `value / x` panics on the division.  None
\* stands for the panic, which both builds end in.
secure_sqrt(value) ==
    IF value = 0 THEN 0
    ELSE IF value = U128_MAX THEN None
    ELSE secure_sqrt_loop(value, value, (value + 1) \div 2)

\* "First liquidity provision" of secure_mint: the genesis branch is taken whenever
\* the share supply is zero.
first_liquidity_only_once(s) == s.total_supply = 0 /\ s.k_last = 0
first_liquidity(s) == s.total_supply = 0

\* The liquidity expression of secure_mint: either an early return (returned, res)
\* or the liquidity, with the pool as the expression leaves it (the sink's insert).
secure_mint_liquidity(s, amount_0, amount_1) ==
    IF first_liquidity(s) THEN
        LET product == checked_mul(amount_0, amount_1) IN
        IF product = None
        THEN [returned |-> TRUE, res |-> Err(s, "Overflow in liquidity calculation")]
        ELSE
        LET sqrt_product == secure_sqrt(product)
            minimum_liquidity == SECURE_MINIMUM_LIQUIDITY IN
        IF sqrt_product = None THEN [returned |-> TRUE, res |-> Err(s, "panicked")] ELSE
        IF sqrt_product <= minimum_liquidity
        THEN [returned |-> TRUE, res |-> Err(unlock(s), "Insufficient first liquidity")]
        ELSE [returned |-> FALSE,
              st |-> [s EXCEPT !.balances[ZERO_ADDRESS] = minimum_liquidity],
              liquidity |-> sqrt_product - minimum_liquidity]
    ELSE
        IF s.reserve_0 = 0 \/ s.reserve_1 = 0
        THEN [returned |-> TRUE,
              res |-> Err(unlock(s), "Division by zero in liquidity calculation")]
        ELSE
        LET mul_a == checked_mul(amount_0, s.total_supply) IN
        IF mul_a = None
        THEN [returned |-> TRUE, res |-> Err(s, "Overflow in liquidity_a")]
        ELSE
        LET liquidity_a == checked_div(mul_a, s.reserve_0)
            mul_b == checked_mul(amount_1, s.total_supply) IN
        IF mul_b = None
        THEN [returned |-> TRUE, res |-> Err(s, "Overflow in liquidity_b")]
        ELSE
        LET liquidity_b == checked_div(mul_b, s.reserve_1) IN
        [returned |-> FALSE, st |-> s, liquidity |-> min(liquidity_a, liquidity_b)]

secure_mint(s, to, amount_0, amount_1) ==
    IF ~lock(s).ok THEN Err(s, "Reentrancy: locked") ELSE
    LET s1 == lock(s).st IN
    IF amount_0 = 0 \/ amount_1 = 0
    THEN Err(unlock(s1), "Insufficient liquidity minted") ELSE
    LET new_reserve_0 == checked_add(s1.reserve_0, amount_0) IN
    IF new_reserve_0 = None THEN Err(s1, "Overflow in reserve_0") ELSE
    LET new_reserve_1 == checked_add(s1.reserve_1, amount_1) IN
    IF new_reserve_1 = None THEN Err(s1, "Overflow in reserve_1") ELSE
    LET liq == secure_mint_liquidity(s1, amount_0, amount_1) IN
    IF liq.returned THEN liq.res ELSE
    LET liquidity == liq.liquidity
        s2 == [liq.st EXCEPT !.reserve_0 = new_reserve_0, !.reserve_1 = new_reserve_1]
        new_supply == checked_add(s2.total_supply, liquidity) IN
    IF new_supply = None THEN Err(s2, "Overflow in total_supply") ELSE
    LET s3 == [s2 EXCEPT !.total_supply = new_supply]
        current_balance == s3.balances[to]
        new_balance == checked_add(current_balance, liquidity) IN
    IF new_balance = None THEN Err(s3, "Overflow in user balance") ELSE
    LET s4 == [s3 EXCEPT !.balances[to] = new_balance]
        k == checked_mul(s4.reserve_0, s4.reserve_1) IN
    IF k = None THEN Err(s4, "Overflow in K-invariant") ELSE
    Ok(unlock([s4 EXCEPT !.k_last = k]), liquidity, 0)

\* Apply the 0.3% fee to an input amount.
amount_in_without_fee(amount_in) == amount_in
amount_in_with_fee(amount_in) ==
    LET m == checked_mul(amount_in, SECURE_FEE_NUMERATOR) IN
    IF m = None THEN None ELSE checked_div(m, SECURE_FEE_DENOMINATOR)

\* "K-invariant must not decrease": the rejection test of secure_swap.
k_check_never_rejects(k_after, k_before) == FALSE
k_invariant_violation(k_after, k_before) == k_after < k_before

\* "Update reserves" of secure_swap.
secure_swap_update_reserves_copy_paste(s, reserve_0_adjusted, reserve_1_adjusted) ==
    [s EXCEPT !.reserve_0 = reserve_0_adjusted, !.reserve_1 = reserve_0_adjusted]
secure_swap_update_reserves(s, reserve_0_adjusted, reserve_1_adjusted) ==
    [s EXCEPT !.reserve_0 = reserve_0_adjusted, !.reserve_1 = reserve_1_adjusted]

secure_swap(s, amount_0_out, amount_1_out, amount_0_in, amount_1_in) ==
    IF ~lock(s).ok THEN Err(s, "Reentrancy: locked") ELSE
    LET s1 == lock(s).st IN
    IF amount_0_out = 0 /\ amount_1_out = 0
    THEN Err(unlock(s1), "Insufficient output amount") ELSE
    IF amount_0_out >= s1.reserve_0 \/ amount_1_out >= s1.reserve_1
    THEN Err(unlock(s1), "Insufficient liquidity") ELSE
    LET sub_0 == checked_sub(s1.reserve_0, amount_0_out) IN
    IF sub_0 = None THEN Err(s1, "Underflow in reserve_0") ELSE
    LET reserve_0_adjusted == checked_add(sub_0, amount_0_in) IN
    IF reserve_0_adjusted = None THEN Err(s1, "Overflow in reserve_0") ELSE
    LET sub_1 == checked_sub(s1.reserve_1, amount_1_out) IN
    IF sub_1 = None THEN Err(s1, "Underflow in reserve_1") ELSE
    LET reserve_1_adjusted == checked_add(sub_1, amount_1_in) IN
    IF reserve_1_adjusted = None THEN Err(s1, "Overflow in reserve_1") ELSE
    LET k_before == checked_mul(s1.reserve_0, s1.reserve_1) IN
    IF k_before = None THEN Err(s1, "Overflow in K-invariant before") ELSE
    LET amount_0_in_with_fee == amount_in_with_fee(amount_0_in) IN
    IF amount_0_in_with_fee = None THEN Err(s1, "Overflow in fee calculation") ELSE
    LET amount_1_in_with_fee == amount_in_with_fee(amount_1_in) IN
    IF amount_1_in_with_fee = None THEN Err(s1, "Overflow in fee calculation") ELSE
    LET balance_0_adjusted == checked_add(sub_0, amount_0_in_with_fee) IN
    IF balance_0_adjusted = None THEN Err(s1, "Overflow in balance_0") ELSE
    LET balance_1_adjusted == checked_add(sub_1, amount_1_in_with_fee) IN
    IF balance_1_adjusted = None THEN Err(s1, "Overflow in balance_1") ELSE
    LET k_after == checked_mul(balance_0_adjusted, balance_1_adjusted) IN
    IF k_after = None THEN Err(s1, "Overflow in K-invariant after") ELSE
    IF k_invariant_violation(k_after, k_before)
    THEN Err(unlock(s1), "K-invariant violation") ELSE
    Ok(unlock(secure_swap_update_reserves(s1, reserve_0_adjusted, reserve_1_adjusted)), 0, 0)

\* "Check user balance" of secure_burn.
balance_check_never_rejects(user_balance, liquidity) == FALSE
insufficient_user_liquidity(user_balance, liquidity) == user_balance < liquidity

secure_burn(s, from, liquidity) ==
    IF ~lock(s).ok THEN Err(s, "Reentrancy: locked") ELSE
    LET s1 == lock(s).st IN
    IF liquidity = 0 THEN Err(unlock(s1), "Insufficient liquidity burned") ELSE
    IF s1.total_supply = 0 THEN Err(unlock(s1), "No liquidity to burn") ELSE
    LET user_balance == s1.balances[from] IN
    IF insufficient_user_liquidity(user_balance, liquidity)
    THEN Err(unlock(s1), "Insufficient user liquidity") ELSE
    LET mul_0 == checked_mul(liquidity, s1.reserve_0) IN
    IF mul_0 = None THEN Err(s1, "Overflow in amount_0 calculation") ELSE
    LET amount_0 == checked_div(mul_0, s1.total_supply)
        mul_1 == checked_mul(liquidity, s1.reserve_1) IN
    IF mul_1 = None THEN Err(s1, "Overflow in amount_1 calculation") ELSE
    LET amount_1 == checked_div(mul_1, s1.total_supply) IN
    IF amount_0 = 0 \/ amount_1 = 0
    THEN Err(unlock(s1), "Insufficient liquidity burned") ELSE
    LET new_reserve_0 == checked_sub(s1.reserve_0, amount_0) IN
    IF new_reserve_0 = None THEN Err(s1, "Underflow in reserve_0") ELSE
    LET s2 == [s1 EXCEPT !.reserve_0 = new_reserve_0]
        new_reserve_1 == checked_sub(s2.reserve_1, amount_1) IN
    IF new_reserve_1 = None THEN Err(s2, "Underflow in reserve_1") ELSE
    LET s3 == [s2 EXCEPT !.reserve_1 = new_reserve_1]
        new_supply == checked_sub(s3.total_supply, liquidity) IN
    IF new_supply = None THEN Err(s3, "Underflow in total_supply") ELSE
    LET s4 == [s3 EXCEPT !.total_supply = new_supply,
                         !.balances[from] = user_balance - liquidity] IN
    Ok(unlock(s4), amount_0, amount_1)

---------------------------------------------------------------------------
\* PairContract (src/uniswap-v2/contracts/pair/lib.rs)

\* The accumulation branch of update: the cumulative prices over time_elapsed.
\* price_0_cumulative_last is stored before price_1's sum is formed.
update_cumulative_prices(s, time_elapsed) ==
    LET mul_0 == checked_mul(s.reserve_1, UQ112) IN
    IF mul_0 = None THEN [ok |-> FALSE, st |-> s] ELSE
    LET price_0 == checked_div(mul_0, s.reserve_0) IN
    IF price_0 = None THEN [ok |-> FALSE, st |-> s] ELSE
    LET mul_1 == checked_mul(s.reserve_0, UQ112) IN
    IF mul_1 = None THEN [ok |-> FALSE, st |-> s] ELSE
    LET price_1 == checked_div(mul_1, s.reserve_1) IN
    IF price_1 = None THEN [ok |-> FALSE, st |-> s] ELSE
    LET term_0 == checked_mul(price_0, time_elapsed) IN
    IF term_0 = None THEN [ok |-> FALSE, st |-> s] ELSE
    LET new_price_0 == checked_add(s.price_0_cumulative_last, term_0) IN
    IF new_price_0 = None THEN [ok |-> FALSE, st |-> s] ELSE
    LET s1 == [s EXCEPT !.price_0_cumulative_last = new_price_0]
        term_1 == checked_mul(price_1, time_elapsed) IN
    IF term_1 = None THEN [ok |-> FALSE, st |-> s1] ELSE
    LET new_price_1 == checked_add(s1.price_1_cumulative_last, term_1) IN
    IF new_price_1 = None THEN [ok |-> FALSE, st |-> s1] ELSE
    [ok |-> TRUE, st |-> [s1 EXCEPT !.price_1_cumulative_last = new_price_1]]

\* update: ok = FALSE is Err(PairError::Overflow).
update_accumulates_after_store(s, now, balance_0, balance_1) ==
    LET time_elapsed == now - s.block_timestamp_last
        stored == [s EXCEPT !.reserve_0 = balance_0, !.reserve_1 = balance_1]
        acc == IF time_elapsed > 0 /\ stored.reserve_0 # 0 /\ stored.reserve_1 # 0
               THEN update_cumulative_prices(stored, time_elapsed)
               ELSE [ok |-> TRUE, st |-> stored] IN
    IF ~acc.ok THEN acc ELSE
    [ok |-> TRUE, st |-> [acc.st EXCEPT !.block_timestamp_last = now]]
update(s, now, balance_0, balance_1) ==
    LET time_elapsed == now - s.block_timestamp_last
        acc == IF time_elapsed > 0 /\ s.reserve_0 # 0 /\ s.reserve_1 # 0
               THEN update_cumulative_prices(s, time_elapsed)
               ELSE [ok |-> TRUE, st |-> s] IN
    IF ~acc.ok THEN acc ELSE
    [ok |-> TRUE,
     st |-> [acc.st EXCEPT !.reserve_0 = balance_0, !.reserve_1 = balance_1,
                           !.block_timestamp_last = now]]

RECURSIVE sqrt_loop(_, _, _)
sqrt_loop(y, z, x) ==
    IF x < z THEN sqrt_loop(y, x, (y \div x + x) \div 2) ELSE z

sqrt(y) ==
    IF y > 3 THEN sqrt_loop(y, y, y \div 2 + 1)
    ELSE IF y # 0 THEN 1 ELSE 0

\* The liquidity expression of mint_internal: [err] or [liquidity].
mint_liquidity(s, amount_0, amount_1) ==
    IF s.total_supply = 0 THEN
        LET product == checked_mul(amount_0, amount_1) IN
        IF product = None THEN [err |-> "Overflow"] ELSE
        LET l == checked_sub(sqrt(product), MINIMUM_LIQUIDITY) IN
        IF l = None THEN [err |-> "InsufficientLiquidity"]
        ELSE [err |-> "", liquidity |-> l]
    ELSE
        LET mul_0 == checked_mul(amount_0, s.total_supply)
            liquidity_0 == IF mul_0 = None THEN None ELSE checked_div(mul_0, s.reserve_0) IN
        IF liquidity_0 = None THEN [err |-> "Overflow"] ELSE
        LET mul_1 == checked_mul(amount_1, s.total_supply)
            liquidity_1 == IF mul_1 = None THEN None ELSE checked_div(mul_1, s.reserve_1) IN
        IF liquidity_1 = None THEN [err |-> "Overflow"] ELSE
        [err |-> "",
         liquidity |-> IF liquidity_0 < liquidity_1 THEN liquidity_0 ELSE liquidity_1]

mint_internal(s, now, to) ==
    LET balance_0 == PLACEHOLDER_BALANCE
        balance_1 == PLACEHOLDER_BALANCE
        amount_0 == balance_0 - s.reserve_0
        amount_1 == balance_1 - s.reserve_1
        total_supply_0 == s.total_supply
        liq == mint_liquidity(s, amount_0, amount_1) IN
    IF liq.err # "" THEN Err(s, liq.err) ELSE
    LET liquidity == liq.liquidity IN
    IF liquidity = 0 THEN Err(s, "InsufficientLiquidity") ELSE
    LET s1 == IF total_supply_0 = 0
              THEN [s EXCEPT !.total_supply = @ + MINIMUM_LIQUIDITY,
                             !.balances[ZERO_ADDRESS] = MINIMUM_LIQUIDITY]
              ELSE s
        s2 == [s1 EXCEPT !.total_supply = @ + liquidity]
        balance == s2.balances[to]
        s3 == [s2 EXCEPT !.balances[to] = balance + liquidity]
        upd == update(s3, now, balance_0, balance_1) IN
    IF ~upd.ok THEN Err(upd.st, "Overflow") ELSE
    Ok(upd.st, liquidity, 0)

mint(s, now, to) ==
    IF ~lock(s).ok THEN Err(s, "Locked") ELSE
    LET result == mint_internal(lock(s).st, now, to) IN
    [result EXCEPT !.st = unlock(result.st)]

burn_internal(s, now, to) ==
    LET balance_0 == PLACEHOLDER_BALANCE
        balance_1 == PLACEHOLDER_BALANCE
        liquidity == s.balances[CONTRACT]
        total_supply_0 == s.total_supply IN
    IF liquidity = 0 \/ total_supply_0 = 0 THEN Err(s, "InsufficientLiquidityBurned") ELSE
    LET mul_0 == checked_mul(liquidity, balance_0)
        amount_0 == IF mul_0 = None THEN None ELSE checked_div(mul_0, total_supply_0) IN
    IF amount_0 = None THEN Err(s, "Overflow") ELSE
    LET mul_1 == checked_mul(liquidity, balance_1)
        amount_1 == IF mul_1 = None THEN None ELSE checked_div(mul_1, total_supply_0) IN
    IF amount_1 = None THEN Err(s, "Overflow") ELSE
    IF amount_0 = 0 \/ amount_1 = 0 THEN Err(s, "InsufficientLiquidityBurned") ELSE
    LET contract_balance == s.balances[CONTRACT] IN
    IF contract_balance < liquidity THEN Err(s, "InsufficientLiquidityBurned") ELSE
    LET new_supply == checked_sub(s.total_supply, liquidity) IN
    IF new_supply = None THEN Err(s, "InsufficientLiquidityBurned") ELSE
    LET s1 == [s EXCEPT !.total_supply = new_supply,
                        !.balances[CONTRACT] = contract_balance - liquidity]
        upd == update(s1, now, balance_0 - amount_0, balance_1 - amount_1) IN
    IF ~upd.ok THEN Err(upd.st, "Overflow") ELSE
    Ok(upd.st, amount_0, amount_1)

burn(s, now, to) ==
    IF ~lock(s).ok THEN Err(s, "Locked") ELSE
    LET result == burn_internal(lock(s).st, now, to) IN
    [result EXCEPT !.st = unlock(result.st)]

\* k_new < k_old of swap.  The source forms k_new = (balance_0 * 1000) * (balance_1 * 1000)
\* and k_old = (reserve_0 * 1000) * (reserve_1 * 1000) with checked_mul in u128.  The
\* reserves of a PairContract never exceed the placeholder balance 1000
\* (PairReservesInRange below), so the six products are at most 10^12 < 2^128: none
\* of them returns None, and the comparison is that of the products without the
\* common factor FEE_DENOMINATOR^2 (10^12 itself is beyond TLC's integers).
k_value_decreased(balance_0, balance_1, old_reserve_0, old_reserve_1) ==
    balance_0 * balance_1 < old_reserve_0 * old_reserve_1

\* The reserve test of swap: an output must stay below its reserve.
insufficient_liquidity_above_only(s, amount_0_out, amount_1_out) ==
    amount_0_out > s.reserve_0 \/ amount_1_out > s.reserve_1
insufficient_liquidity(s, amount_0_out, amount_1_out) ==
    amount_0_out >= s.reserve_0 \/ amount_1_out >= s.reserve_1

swap(s, now, amount_0_out, amount_1_out, to) ==
    IF ~lock(s).ok THEN Err(s, "Locked") ELSE
    LET s1 == lock(s).st IN
    IF amount_0_out = 0 /\ amount_1_out = 0
    THEN Err(unlock(s1), "InsufficientOutputAmount") ELSE
    IF insufficient_liquidity(s1, amount_0_out, amount_1_out)
    THEN Err(unlock(s1), "InsufficientLiquidity") ELSE
    LET balance_0 == s1.reserve_0 - amount_0_out
        balance_1 == s1.reserve_1 - amount_1_out IN
    IF k_value_decreased(balance_0, balance_1, s1.reserve_0, s1.reserve_1)
    THEN Err(unlock(s1), "KValueDecreased") ELSE
    LET upd == update(s1, now, balance_0, balance_1) IN
    IF ~upd.ok THEN Err(upd.st, "Overflow") ELSE
    Ok(unlock(upd.st), 0, 0)

sync(s, now) ==
    LET balance_0 == PLACEHOLDER_BALANCE
        balance_1 == PLACEHOLDER_BALANCE
        upd == update(s, now, balance_0, balance_1) IN
    IF ~upd.ok THEN Err(upd.st, "Overflow") ELSE Ok(upd.st, 0, 0)

---------------------------------------------------------------------------
\* LunexEcosystem (src/tests/lunex_complete_integration_test.rs): the exchange with
\* its fee collection, the trading rewards and the staking ledger.  The source
\* counts in 10^-8 LUNES (LUNES_DECIMALS = 10^8), which puts its reserves of 10^14
\* beyond TLC's integers; the unit is scaled to 1 here, as the word is.  The
\* source's arithmetic is plain u128 (`*`, `+=`), which the amounts of this model
\* never overflow.

LUNES_DECIMALS == 1
INITIAL_RESERVE == 1000000 * LUNES_DECIMALS
DEX_FEE_NUMERATOR == 995
DEX_FEE_DENOMINATOR == 1000
SILVER_THRESHOLD == 10000 * LUNES_DECIMALS
GOLD_THRESHOLD == 50000 * LUNES_DECIMALS
PLATINUM_THRESHOLD == 200000 * LUNES_DECIMALS
MIN_STAKE_AMOUNT == 1000 * LUNES_DECIMALS

EcosystemConfig_default ==
    [total_fee_rate |-> 50, lp_fee_share |-> 60, protocol_fee_share |-> 20,
     rewards_fee_share |-> 20]

LunexDEX_new ==
    [token_a |-> "LUNES", token_b |-> "USDT",
     reserve_a |-> INITIAL_RESERVE, reserve_b |-> INITIAL_RESERVE,
     total_volume_24h |-> 0,
     collected_fees |-> [lp_fees |-> 0, protocol_fees |-> 0, rewards_fees |-> 0]]

LunexEcosystem_new ==
    [dex |-> LunexDEX_new,
     trading_rewards |-> [traders |-> [t \in {} |-> 0], monthly_pool |-> 0,
                          last_distribution |-> 0],
     staking |-> [stakes |-> [u \in {} |-> 0]],
     config |-> EcosystemConfig_default]

\* LunexDEX::swap: [ok = FALSE] is Err("Pool não encontrado").
dex_swap(e, token_in, token_out, amount_in) ==
    LET pool == e.dex IN
    IF {token_in, token_out} # {pool.token_a, pool.token_b} \/ token_in = token_out
    THEN [ok |-> FALSE, st |-> e, amount_out |-> 0, total_fee |-> 0] ELSE
    LET a_in == token_in = pool.token_a
        reserve_in == IF a_in THEN pool.reserve_a ELSE pool.reserve_b
        reserve_out == IF a_in THEN pool.reserve_b ELSE pool.reserve_a
        in_with_fee == (amount_in * DEX_FEE_NUMERATOR) \div DEX_FEE_DENOMINATOR
        total_fee == amount_in - in_with_fee
        amount_out == (reserve_out * in_with_fee) \div (reserve_in + in_with_fee)
        st == IF a_in
              THEN [e EXCEPT !.dex.reserve_a = @ + amount_in, !.dex.reserve_b = @ - amount_out]
              ELSE [e EXCEPT !.dex.reserve_b = @ + amount_in, !.dex.reserve_a = @ - amount_out]
    IN [ok |-> TRUE, st |-> st, amount_out |-> amount_out, total_fee |-> total_fee]

distribute_fees_rounding_up(e, total_fee) ==
    LET lp_fee == (total_fee * e.config.lp_fee_share + 99) \div 100
        protocol_fee == (total_fee * e.config.protocol_fee_share + 99) \div 100
        rewards_fee == (total_fee * e.config.rewards_fee_share + 99) \div 100 IN
    [e EXCEPT !.dex.collected_fees.lp_fees = @ + lp_fee,
              !.dex.collected_fees.protocol_fees = @ + protocol_fee,
              !.dex.collected_fees.rewards_fees = @ + rewards_fee,
              !.trading_rewards.monthly_pool = @ + rewards_fee]
distribute_fees(e, total_fee) ==
    LET lp_fee == (total_fee * e.config.lp_fee_share) \div 100
        protocol_fee == (total_fee * e.config.protocol_fee_share) \div 100
        rewards_fee == (total_fee * e.config.rewards_fee_share) \div 100 IN
    [e EXCEPT !.dex.collected_fees.lp_fees = @ + lp_fee,
              !.dex.collected_fees.protocol_fees = @ + protocol_fee,
              !.dex.collected_fees.rewards_fees = @ + rewards_fee,
              !.trading_rewards.monthly_pool = @ + rewards_fee]

calculate_tier(monthly_volume) ==
    IF monthly_volume >= PLATINUM_THRESHOLD THEN "Platinum"
    ELSE IF monthly_volume >= GOLD_THRESHOLD THEN "Gold"
    ELSE IF monthly_volume >= SILVER_THRESHOLD THEN "Silver"
    ELSE "Bronze"

track_volume(e, trader, volume) ==
    LET known == e.trading_rewards.traders
        profile == IF trader \in DOMAIN known THEN known[trader]
                   ELSE [monthly_volume |-> 0, total_volume |-> 0, tier |-> "Bronze",
                         pending_rewards |-> 0, claimed_rewards |-> 0]
        updated == [profile EXCEPT !.monthly_volume = @ + volume,
                                   !.total_volume = @ + volume,
                                   !.tier = calculate_tier(profile.monthly_volume + volume)] IN
    [e EXCEPT !.trading_rewards.traders =
        [t \in DOMAIN known \cup {trader} |-> IF t = trader THEN updated ELSE known[t]]]

\* execute_trade: swap, distribute_fees, track_volume, the 24h volume.
execute_trade(e, trader, token_in, token_out, amount_in) ==
    LET swapped == dex_swap(e, token_in, token_out, amount_in) IN
    IF ~swapped.ok THEN [st |-> e, ok |-> FALSE, err |-> "Pool não encontrado", v0 |-> 0, v1 |-> 0]
    ELSE
    LET e1 == distribute_fees(swapped.st, swapped.total_fee)
        e2 == track_volume(e1, trader, amount_in)
        e3 == [e2 EXCEPT !.dex.total_volume_24h = @ + amount_in] IN
    [st |-> e3, ok |-> TRUE, err |-> "", v0 |-> swapped.amount_out, v1 |-> swapped.total_fee]

calculate_trader_weight(trader) ==
    LET multiplier == CASE trader.tier = "Bronze" -> 100
                        [] trader.tier = "Silver" -> 120
                        [] trader.tier = "Gold" -> 150
                        [] OTHER -> 200 IN
    (trader.monthly_volume * multiplier) \div 100

RECURSIVE calculate_total_weight_over(_, _)
calculate_total_weight_over(traders, S) ==
    IF S = {} THEN 0
    ELSE LET t == CHOOSE x \in S : TRUE IN
         calculate_trader_weight(traders[t]) + calculate_total_weight_over(traders, S \ {t})

calculate_total_weight(e) ==
    calculate_total_weight_over(e.trading_rewards.traders, DOMAIN e.trading_rewards.traders)

\* TradingRewardsSystem::distribute_rewards: the pool it paid out, and the system.
distribute_rewards(e, current_time) ==
    LET tr == e.trading_rewards
        total_weight == calculate_total_weight(e) IN
    IF tr.monthly_pool = 0 \/ total_weight = 0 THEN [st |-> e, distributed |-> 0] ELSE
    LET pool_to_distribute == tr.monthly_pool
        paid == [t \in DOMAIN tr.traders |->
                   [tr.traders[t] EXCEPT !.pending_rewards =
                       @ + (pool_to_distribute * calculate_trader_weight(tr.traders[t]))
                              \div total_weight]] IN
    [st |-> [e EXCEPT !.trading_rewards.traders = paid,
                      !.trading_rewards.monthly_pool = 0,
                      !.trading_rewards.last_distribution = current_time],
     distributed |-> pool_to_distribute]

distribute_monthly_rewards(e, current_time) ==
    LET d == distribute_rewards(e, current_time) IN
    [st |-> [d.st EXCEPT !.dex.collected_fees.rewards_fees = 0],
     ok |-> TRUE, err |-> "", v0 |-> d.distributed, v1 |-> 0]

\* StakingSystem::stake.
ecosystem_stake(e, user, amount, duration_days, current_time) ==
    IF amount < MIN_STAKE_AMOUNT
    THEN [st |-> e, ok |-> FALSE, err |-> "Stake mínimo é 1.000 LUNES", v0 |-> 0, v1 |-> 0]
    ELSE
    LET stakes == e.staking.stakes
        position == [amount |-> amount, start_time |-> current_time,
                     duration_days |-> duration_days] IN
    [st |-> [e EXCEPT !.staking.stakes =
                [u \in DOMAIN stakes \cup {user} |-> IF u = user THEN position ELSE stakes[u]]],
     ok |-> TRUE, err |-> "", v0 |-> 0, v1 |-> 0]

---------------------------------------------------------------------------
\* FactoryContract (src/uniswap-v2/contracts/factory/lib.rs).  An AccountId is the
\* byte it repeats: 0 for the zero address, 1.. for alice, bob, charlie, django of
\* the test environment, so that `<` on accounts is `<` on these numbers.

ZERO_ACCOUNT == 0
ALICE == 1
BOB == 2
CHARLIE == 3
DJANGO == 4
AccountIds == ZERO_ACCOUNT..DJANGO

FactoryContract_new(fee_to_setter) ==
    [fee_to |-> ZERO_ACCOUNT,
     fee_to_setter |-> fee_to_setter,
     get_pair |-> [k \in AccountIds \X AccountIds |-> None],
     all_pairs |-> <<>>]

ensure_caller_is_anyone(f, caller) == TRUE
ensure_caller_is_fee_setter(f, caller) == caller = f.fee_to_setter

\* "" stands for Ok(()).
validate_pair_creation(token_a, token_b) ==
    IF token_a = ZERO_ACCOUNT \/ token_b = ZERO_ACCOUNT THEN "ZeroAddress"
    ELSE IF token_a = token_b THEN "IdenticalAddresses"
    ELSE ""

sort_tokens(token_a, token_b) ==
    IF token_a < token_b THEN <<token_a, token_b>> ELSE <<token_b, token_a>>

\* Blake2x256 of the two sorted tokens, as an injective code of the pair that is no
\* account of the environment.
generate_pair_address(token_0, token_1) == 100 + 10 * token_0 + token_1

register_pair_one_direction(f, token_0, token_1, pair_address) ==
    [f EXCEPT !.get_pair[<<token_0, token_1>>] = pair_address,
              !.all_pairs = Append(@, pair_address)]
register_pair(f, token_0, token_1, pair_address) ==
    [f EXCEPT !.get_pair[<<token_0, token_1>>] = pair_address,
              !.get_pair[<<token_1, token_0>>] = pair_address,
              !.all_pairs = Append(@, pair_address)]

all_pairs_length(f) == Len(f.all_pairs)

create_pair(f, token_a, token_b) ==
    LET invalid == validate_pair_creation(token_a, token_b)
        sorted == sort_tokens(token_a, token_b)
        pair_address == generate_pair_address(sorted[1], sorted[2])
    IN  IF invalid # "" THEN Err(f, invalid)
        ELSE IF f.get_pair[sorted] # None THEN Err(f, "PairExists")
        ELSE Ok(register_pair(f, sorted[1], sorted[2], pair_address), pair_address, 0)

set_fee_to(f, caller, fee_to) ==
    IF ~ensure_caller_is_fee_setter(f, caller) THEN Err(f, "CallerIsNotFeeSetter")
    ELSE Ok([f EXCEPT !.fee_to = fee_to], 0, 0)

set_fee_to_setter(f, caller, fee_to_setter) ==
    IF ~ensure_caller_is_fee_setter(f, caller) THEN Err(f, "CallerIsNotFeeSetter")
    ELSE IF fee_to_setter = ZERO_ACCOUNT THEN Err(f, "ZeroAddress")
    ELSE Ok([f EXCEPT !.fee_to_setter = fee_to_setter], 0, 0)

---------------------------------------------------------------------------
\* WnativeContract (src/uniswap-v2/contracts/wnative/lib.rs).  The record holds the
\* contract's storage and, as native_balance, the native tokens of the contract's
\* account (env().balance()).  The handlers are the methods of the struct: what one
\* has written before it returns Err stays written.

WnativeContract_new ==
    [total_supply |-> 0,
     balances |-> [a \in AccountIds |-> 0],
     allowances |-> [k \in AccountIds \X AccountIds |-> 0],
     native_balance |-> 0]

balance_of(w, owner) == w.balances[owner]
allowance(w, owner, spender) == w.allowances[<<owner, spender>>]
is_healthy(w) == w.native_balance >= w.total_supply

\* The internal results: [st, err], err "" standing for Ok(()).
_transfer(w, from, to, value) ==
    IF from = to THEN [st |-> w, err |-> "SelfTransfer"]
    ELSE IF value = 0 THEN [st |-> w, err |-> ""]
    ELSE IF balance_of(w, from) < value THEN [st |-> w, err |-> "InsufficientBalance"]
    ELSE LET new_from_balance == checked_sub(balance_of(w, from), value)
             w1 == [w EXCEPT !.balances[from] = new_from_balance]
             new_to_balance == checked_add(balance_of(w1, to), value)
         IN  IF new_from_balance = None THEN [st |-> w, err |-> "InsufficientBalance"]
             ELSE IF new_to_balance = None THEN [st |-> w1, err |-> "Overflow"]
             ELSE [st |-> [w1 EXCEPT !.balances[to] = new_to_balance], err |-> ""]

_mint_supply_only(w, to, value) ==
    [st |-> [w EXCEPT !.total_supply = @ + value], err |-> ""]
_mint(w, to, value) ==
    IF value = 0 THEN [st |-> w, err |-> ""]
    ELSE LET new_total_supply == checked_add(w.total_supply, value)
             w1 == [w EXCEPT !.total_supply = new_total_supply]
             new_to_balance == checked_add(balance_of(w, to), value)
         IN  IF new_total_supply = None THEN [st |-> w, err |-> "Overflow"]
             ELSE IF new_to_balance = None THEN [st |-> w1, err |-> "Overflow"]
             ELSE [st |-> [w1 EXCEPT !.balances[to] = new_to_balance], err |-> ""]

_burn(w, from, value) ==
    IF value = 0 THEN [st |-> w, err |-> ""]
    ELSE LET new_total_supply == checked_sub(w.total_supply, value)
             w1 == [w EXCEPT !.total_supply = new_total_supply]
             new_from_balance == checked_sub(balance_of(w, from), value)
         IN  IF new_total_supply = None THEN [st |-> w, err |-> "InsufficientBalance"]
             ELSE IF new_from_balance = None THEN [st |-> w1, err |-> "InsufficientBalance"]
             ELSE [st |-> [w1 EXCEPT !.balances[from] = new_from_balance], err |-> ""]

Result(r) == IF r.err = "" THEN Ok(r.st, 0, 0) ELSE Err(r.st, r.err)

transfer(w, caller, to, value) ==
    Result(_transfer(w, caller, to, value))

transfer_from(w, spender, from, to, value) ==
    LET current_allowance == allowance(w, from, spender)
        new_allowance == checked_sub(current_allowance, value)
    IN  IF current_allowance < value THEN Err(w, "InsufficientAllowance")
        ELSE IF new_allowance = None THEN Err(w, "InsufficientAllowance")
        ELSE Result(_transfer(
                        [w EXCEPT !.allowances[<<from, spender>>] = new_allowance],
                        from, to, value))

approve(w, owner, spender, value) ==
    IF owner = spender THEN Err(w, "SelfTransfer")
    ELSE Ok([w EXCEPT !.allowances[<<owner, spender>>] = value], 0, 0)

\* A payable message: the runtime has moved transferred_value to the contract's
\* account when the handler starts, and moves it back if the handler fails.
deposit(w, caller, transferred_value) ==
    LET paid == [w EXCEPT !.native_balance = @ + transferred_value]
        minted_to == _mint(paid, caller, transferred_value)
    IN  IF transferred_value = 0 THEN Err(w, "ZeroAmount")
        ELSE IF minted_to.err # ""
             THEN Err([minted_to.st EXCEPT !.native_balance = w.native_balance],
                      minted_to.err)
        ELSE Ok(minted_to.st, 0, 0)

\* env().transfer(caller, amount) fails when the contract's account holds less.
withdraw_without_burn(w, caller, amount) ==
    IF w.native_balance < amount THEN Err(w, "TransferFailed")
    ELSE Ok([w EXCEPT !.native_balance = @ - amount], 0, 0)
withdraw(w, caller, amount) ==
    LET burned == _burn(w, caller, amount)
    IN  IF amount = 0 THEN Err(w, "ZeroAmount")
        ELSE IF balance_of(w, caller) < amount THEN Err(w, "InsufficientBalance")
        ELSE IF burned.err # "" THEN Err(burned.st, burned.err)
        ELSE IF burned.st.native_balance < amount THEN Err(burned.st, "TransferFailed")
        ELSE Ok([burned.st EXCEPT !.native_balance = @ - amount], 0, 0)

---------------------------------------------------------------------------
\* StakingContract (src/uniswap-v2/contracts/staking/lib.rs): staking and the
\* governance of listings and of the proposal fee.  Amounts are counted in LUNES
\* (10^8 of the source's unit) and times in days (24 * 60 * 30 of the source's
\* unit), which keeps the reward products inside TLC's integers.  The record holds
\* the storage and, as block_timestamp and native_balance, the clock and the
\* contract's native tokens of the environment.  The handlers are the methods of
\* the struct: what one has written before it returns Err stays written.

MIN_STAKE == 1000
MIN_DURATION == 7
MAX_DURATION == 365
BRONZE_REWARD_RATE == 800
SILVER_REWARD_RATE == 1000
GOLD_REWARD_RATE == 1200
PLATINUM_REWARD_RATE == 1500
SMALL_STAKER_MULTIPLIER == 10000
MEDIUM_STAKER_MULTIPLIER == 11000
LARGE_STAKER_MULTIPLIER == 12000
WHALE_STAKER_MULTIPLIER == 13000
MEDIUM_STAKE_THRESHOLD == 10000
LARGE_STAKE_THRESHOLD == 50000
WHALE_STAKE_THRESHOLD == 200000
TOP_100_BONUS == 5000
TOP_100_DURATION == 90
TOP_500_BONUS == 2500
TOP_500_DURATION == 60
TOP_1000_BONUS == 1000
TOP_1000_DURATION == 30
EARLY_PENALTY_RATE == 500
VOTING_PERIOD == 14
MIN_PROPOSAL_POWER == 10000
PROPOSAL_FEE == 1000
MAX_STAKERS == 10000
BASIS_POINTS == 10000
\* The literal 10_000_000_000_000 of propose_fee_change and execute_fee_change.
MAX_PROPOSAL_FEE == 100000
year_in_blocks == 365

NoStake ==
    [present |-> FALSE, amount |-> 0, start_time |-> 0, duration |-> 0, last_claim |-> 0,
     pending_rewards |-> 0, active |-> FALSE, tier |-> "Bronze",
     early_adopter_tier |-> "None", governance_participation |-> 0]

\* new(treasury_address), called by `owner`.
StakingContract_new(owner, treasury_address) ==
    [owner |-> owner,
     treasury_address |-> treasury_address,
     paused |-> FALSE,
     locked |-> FALSE,
     total_staked |-> 0,
     total_rewards_distributed |-> 0,
     active_stakers |-> 0,
     stakes |-> [a \in AccountIds |-> NoStake],
     staker_addresses |-> <<>>,
     staker_index |-> 0,
     proposals |-> <<>>,
     next_proposal_id |-> 1,
     user_votes |-> {},
     approved_projects |-> {},
     trading_rewards_pool |-> 0,
     trading_rewards_contract |-> None,
     total_trading_rewards_distributed |-> 0,
     tier_multipliers |-> [Bronze |-> BRONZE_REWARD_RATE, Silver |-> SILVER_REWARD_RATE,
                           Gold |-> GOLD_REWARD_RATE, Platinum |-> PLATINUM_REWARD_RATE],
     early_adopter_counts |-> [None |-> 0, Top1000 |-> 0, Top500 |-> 0, Top100 |-> 0],
     current_proposal_fee |-> PROPOSAL_FEE,
     block_timestamp |-> 0,
     native_balance |-> 0]

ensure_owner(c, caller) == caller = c.owner
ensure_not_paused(c) == ~c.paused
release_lock(c) == [c EXCEPT !.locked = FALSE]

calculate_staking_tier(duration) ==
    IF duration >= 181 THEN "Platinum"
    ELSE IF duration >= 91 THEN "Gold"
    ELSE IF duration >= 31 THEN "Silver"
    ELSE "Bronze"

\* [st, tier]: the tier handed out and the counters after it.
determine_early_adopter_tier(c) ==
    IF c.early_adopter_counts.Top100 < 100
    THEN [st |-> [c EXCEPT !.early_adopter_counts.Top100 = @ + 1], tier |-> "Top100"]
    ELSE IF c.early_adopter_counts.Top500 < 500
    THEN [st |-> [c EXCEPT !.early_adopter_counts.Top500 = @ + 1], tier |-> "Top500"]
    ELSE IF c.early_adopter_counts.Top1000 < 1000
    THEN [st |-> [c EXCEPT !.early_adopter_counts.Top1000 = @ + 1], tier |-> "Top1000"]
    ELSE [st |-> c, tier |-> "None"]

get_quantity_multiplier(amount) ==
    IF amount >= WHALE_STAKE_THRESHOLD THEN WHALE_STAKER_MULTIPLIER
    ELSE IF amount >= LARGE_STAKE_THRESHOLD THEN LARGE_STAKER_MULTIPLIER
    ELSE IF amount >= MEDIUM_STAKE_THRESHOLD THEN MEDIUM_STAKER_MULTIPLIER
    ELSE SMALL_STAKER_MULTIPLIER

get_early_adopter_bonus(stake, current_time) ==
    LET since == checked_sub(current_time, stake.start_time)
        time_since_start == IF since = None THEN 0 ELSE since
    IN  CASE stake.early_adopter_tier = "Top100" ->
                 IF time_since_start <= TOP_100_DURATION THEN TOP_100_BONUS ELSE 0
          [] stake.early_adopter_tier = "Top500" ->
                 IF time_since_start <= TOP_500_DURATION THEN TOP_500_BONUS ELSE 0
          [] stake.early_adopter_tier = "Top1000" ->
                 IF time_since_start <= TOP_1000_DURATION THEN TOP_1000_BONUS ELSE 0
          [] OTHER -> 0

\* A chain of checked operations: None once any link is None.
and_then_mul(a, b) == IF a = None THEN None ELSE checked_mul(a, b)
and_then_div(a, b) == IF a = None THEN None ELSE checked_div(a, b)

\* The rewards, or None for Err(Overflow).
calculate_pending_rewards(c, stake, current_time) ==
    LET time_staked == checked_sub(current_time, stake.last_claim)
        base_rate == c.tier_multipliers[stake.tier]
        quantity_multiplier == get_quantity_multiplier(stake.amount)
        early_adopter_bonus == get_early_adopter_bonus(stake, current_time)
        base_rewards ==
            and_then_div(and_then_div(and_then_mul(checked_mul(stake.amount, base_rate),
                                                   time_staked),
                                      BASIS_POINTS),
                         year_in_blocks)
        rewards_with_quantity ==
            and_then_div(and_then_mul(base_rewards, quantity_multiplier), BASIS_POINTS)
    IN  IF time_staked = None THEN None
        ELSE and_then_div(and_then_mul(rewards_with_quantity,
                                       BASIS_POINTS + early_adopter_bonus),
                          BASIS_POINTS)

\* [ok, rewards, penalty]: ok is FALSE for Err(Overflow).
calculate_rewards_and_penalty(c, stake, current_time) ==
    LET rewards == calculate_pending_rewards(c, stake, current_time)
        time_staked == checked_sub(current_time, stake.start_time)
        penalty == IF time_staked < stake.duration
                   THEN and_then_div(checked_mul(stake.amount, EARLY_PENALTY_RATE),
                                     BASIS_POINTS)
                   ELSE 0
    IN  IF rewards = None \/ time_staked = None \/ penalty = None
        THEN [ok |-> FALSE, rewards |-> 0, penalty |-> 0]
        ELSE [ok |-> TRUE, rewards |-> rewards, penalty |-> penalty]

get_voting_power(c, account) ==
    IF c.stakes[account].present /\ c.stakes[account].active
    THEN c.stakes[account].amount
    ELSE 0

\* stake(duration) with `amount` of native tokens attached; they return to the
\* caller when the call fails.
stake_uncounted(c, caller, amount, duration) ==
    IF ~ensure_not_paused(c) THEN Err(c, "ContractPaused")
    ELSE IF c.locked THEN Err(c, "Reentrancy")
    ELSE IF amount < MIN_STAKE THEN Err(release_lock(c), "MinimumStakeNotMet")
    ELSE IF duration < MIN_DURATION \/ duration > MAX_DURATION
         THEN Err(release_lock(c), "InvalidDuration")
    ELSE IF c.active_stakers >= MAX_STAKERS THEN Err(release_lock(c), "MaxStakersReached")
    ELSE IF c.stakes[caller].present /\ c.stakes[caller].active
         THEN Err(release_lock(c), "NoActiveStake")
    ELSE
        LET early == determine_early_adopter_tier(c)
            stake_position ==
                [present |-> TRUE, amount |-> amount, start_time |-> c.block_timestamp,
                 duration |-> duration, last_claim |-> c.block_timestamp,
                 pending_rewards |-> 0, active |-> TRUE,
                 tier |-> calculate_staking_tier(duration),
                 early_adopter_tier |-> early.tier, governance_participation |-> 0]
            c1 == [early.st EXCEPT !.locked = TRUE,
                                   !.stakes[caller] = stake_position,
                                   !.staker_addresses = Append(@, caller),
                                   !.staker_index = @ + 1]
            new_total_staked == checked_add(c.total_staked, amount)
        IN  IF new_total_staked = None THEN Err(c1, "Overflow")
            ELSE Ok(release_lock([c1 EXCEPT !.total_staked = new_total_staked,
                                            !.native_balance = @ + amount]), 0, 0)
stake(c, caller, amount, duration) ==
    IF ~ensure_not_paused(c) THEN Err(c, "ContractPaused")
    ELSE IF c.locked THEN Err(c, "Reentrancy")
    ELSE IF amount < MIN_STAKE THEN Err(release_lock(c), "MinimumStakeNotMet")
    ELSE IF duration < MIN_DURATION \/ duration > MAX_DURATION
         THEN Err(release_lock(c), "InvalidDuration")
    ELSE IF c.active_stakers >= MAX_STAKERS THEN Err(release_lock(c), "MaxStakersReached")
    ELSE IF c.stakes[caller].present /\ c.stakes[caller].active
         THEN Err(release_lock(c), "NoActiveStake")
    ELSE
        LET early == determine_early_adopter_tier(c)
            stake_position ==
                [present |-> TRUE, amount |-> amount, start_time |-> c.block_timestamp,
                 duration |-> duration, last_claim |-> c.block_timestamp,
                 pending_rewards |-> 0, active |-> TRUE,
                 tier |-> calculate_staking_tier(duration),
                 early_adopter_tier |-> early.tier, governance_participation |-> 0]
            c1 == [early.st EXCEPT !.locked = TRUE,
                                   !.stakes[caller] = stake_position,
                                   !.staker_addresses = Append(@, caller),
                                   !.staker_index = @ + 1,
                                   !.active_stakers = @ + 1]
            new_total_staked == checked_add(c.total_staked, amount)
        IN  IF new_total_staked = None THEN Err(c1, "Overflow")
            ELSE Ok(release_lock([c1 EXCEPT !.total_staked = new_total_staked,
                                            !.native_balance = @ + amount]), 0, 0)

unstake(c, caller) ==
    IF ~ensure_not_paused(c) THEN Err(c, "ContractPaused")
    ELSE IF c.locked THEN Err(c, "Reentrancy")
    ELSE
        LET held == [c EXCEPT !.locked = TRUE]
            position == c.stakes[caller]
            due == calculate_rewards_and_penalty(c, position, c.block_timestamp)
            with_rewards == checked_add(position.amount, due.rewards)
            total_amount == IF with_rewards = None THEN None
                            ELSE checked_sub(with_rewards, due.penalty)
            c1 == [held EXCEPT !.stakes[caller].active = FALSE,
                               !.active_stakers = @ - 1]
            new_total_staked == checked_sub(c.total_staked, position.amount)
            c2 == [c1 EXCEPT !.total_staked = new_total_staked]
            new_distributed == checked_add(c.total_rewards_distributed, due.rewards)
            c3 == [c2 EXCEPT !.total_rewards_distributed = new_distributed]
        IN  IF ~position.present THEN Err(held, "NoActiveStake")
            ELSE IF ~position.active THEN Err(release_lock(held), "NoActiveStake")
            ELSE IF ~due.ok THEN Err(held, "Overflow")
            ELSE IF total_amount = None THEN Err(held, "Overflow")
            ELSE IF new_total_staked = None THEN Err(c1, "Overflow")
            ELSE IF new_distributed = None THEN Err(c2, "Overflow")
            ELSE IF c3.native_balance < total_amount
                 THEN Err(release_lock(c3), "InsufficientBalance")
            ELSE Ok(release_lock([c3 EXCEPT !.native_balance = @ - total_amount]),
                    0, 0)

\* create_proposal(.., token_address) with `fee` of native tokens attached.
create_proposal(c, caller, token_address, fee) ==
    LET proposal_id == c.next_proposal_id
        proposal ==
            [id |-> proposal_id, token_address |-> token_address, proposer |-> caller,
             votes_for |-> 0, votes_against |-> 0,
             voting_deadline |-> c.block_timestamp + VOTING_PERIOD,
             executed |-> FALSE, active |-> TRUE, fee |-> fee, fee_refunded |-> FALSE,
             new_fee_amount |-> None]
    IN  IF ~ensure_not_paused(c) THEN Err(c, "ContractPaused")
        ELSE IF token_address = ZERO_ACCOUNT THEN Err(c, "ZeroAddress")
        ELSE IF fee < c.current_proposal_fee THEN Err(c, "InsufficientFee")
        ELSE IF get_voting_power(c, caller) < MIN_PROPOSAL_POWER
             THEN Err(c, "InsufficientVotingPower")
        ELSE Ok([c EXCEPT !.proposals = Append(@, proposal),
                          !.next_proposal_id = @ + 1,
                          !.native_balance = @ + fee], proposal_id, 0)

propose_fee_change(c, caller, new_fee, fee) ==
    LET proposal_id == c.next_proposal_id
        proposal ==
            [id |-> proposal_id, token_address |-> ZERO_ACCOUNT, proposer |-> caller,
             votes_for |-> 0, votes_against |-> 0,
             voting_deadline |-> c.block_timestamp + VOTING_PERIOD,
             executed |-> FALSE, active |-> TRUE, fee |-> fee, fee_refunded |-> FALSE,
             new_fee_amount |-> new_fee]
    IN  IF ~ensure_not_paused(c) THEN Err(c, "ContractPaused")
        ELSE IF new_fee = 0 \/ new_fee > MAX_PROPOSAL_FEE THEN Err(c, "InvalidAmount")
        ELSE IF fee < c.current_proposal_fee THEN Err(c, "InsufficientFee")
        ELSE IF get_voting_power(c, caller) < MIN_PROPOSAL_POWER
             THEN Err(c, "InsufficientVotingPower")
        ELSE Ok([c EXCEPT !.proposals = Append(@, proposal),
                          !.next_proposal_id = @ + 1,
                          !.native_balance = @ + fee], proposal_id, 0)

already_voted_never(c, proposal_id, caller) == FALSE
already_voted(c, proposal_id, caller) == <<proposal_id, caller>> \in c.user_votes

vote(c, caller, proposal_id, in_favor) ==
    IF ~ensure_not_paused(c) THEN Err(c, "ContractPaused")
    ELSE IF proposal_id \notin DOMAIN c.proposals THEN Err(c, "InvalidProposal")
    ELSE
        LET proposal == c.proposals[proposal_id]
            vote_power == get_voting_power(c, caller)
            tally == IF in_favor THEN checked_add(proposal.votes_for, vote_power)
                     ELSE checked_add(proposal.votes_against, vote_power)
        IN  IF ~proposal.active THEN Err(c, "InvalidProposal")
            ELSE IF c.block_timestamp > proposal.voting_deadline
                 THEN Err(c, "VotingPeriodExpired")
            ELSE IF already_voted(c, proposal_id, caller) THEN Err(c, "AlreadyVoted")
            ELSE IF vote_power = 0 THEN Err(c, "InsufficientVotingPower")
            ELSE IF tally = None THEN Err(c, "Overflow")
            ELSE Ok([c EXCEPT !.proposals[proposal_id] =
                                  IF in_favor THEN [proposal EXCEPT !.votes_for = tally]
                                  ELSE [proposal EXCEPT !.votes_against = tally],
                              !.user_votes = @ \cup {<<proposal_id, caller>>}], 0, 0)

\* [st, err]: called by execute_proposal only (it is no message of the contract).
execute_fee_change(c, proposal_id, new_fee) ==
    IF new_fee = 0 \/ new_fee > MAX_PROPOSAL_FEE THEN [st |-> c, err |-> "InvalidAmount"]
    ELSE [st |-> [c EXCEPT !.current_proposal_fee = new_fee], err |-> ""]

voting_still_open_never(c, proposal) == FALSE
voting_still_open(c, proposal) == c.block_timestamp < proposal.voting_deadline

majority_or_tie(proposal) == proposal.votes_for >= proposal.votes_against
majority(proposal) == proposal.votes_for > proposal.votes_against

saturating_add(a, b) == IF b <= U128_MAX - a THEN a + b ELSE U128_MAX

execute_proposal(c, proposal_id) ==
    IF proposal_id \notin DOMAIN c.proposals THEN Err(c, "InvalidProposal")
    ELSE
        LET proposal == c.proposals[proposal_id]
            approved == majority(proposal)
            changed == execute_fee_change(c, proposal_id, proposal.new_fee_amount)
            c1 == IF approved
                  THEN IF proposal.new_fee_amount # None THEN changed.st
                       ELSE [c EXCEPT !.approved_projects = @ \cup {proposal.token_address}]
                  ELSE IF ~proposal.fee_refunded
                       THEN [c EXCEPT !.trading_rewards_pool =
                                          saturating_add(@, proposal.fee \div 10)]
                       ELSE c
            done == [proposal EXCEPT !.fee_refunded = TRUE, !.executed = TRUE,
                                     !.active = FALSE]
        IN  IF ~proposal.active \/ proposal.executed THEN Err(c, "InvalidProposal")
            ELSE IF voting_still_open(c, proposal) THEN Err(c, "VotingPeriodExpired")
            ELSE IF approved /\ proposal.new_fee_amount # None /\ changed.err # ""
                 THEN Err(changed.st, changed.err)
            ELSE Ok([c1 EXCEPT !.proposals[proposal_id] = done], 0, 0)

pause(c, caller) ==
    IF ~ensure_owner(c, caller) THEN Err(c, "AccessDenied")
    ELSE Ok([c EXCEPT !.paused = TRUE], 0, 0)


---------------------------------------------------------------------------
\* TradingRewardsContract (src/uniswap-v2/contracts/rewards/lib.rs): the volume
\* ledger the router reports trades to.  Amounts are in LUNES (the source's
\* DECIMALS_8 = 10^8 is scaled to 1, as LUNES_DECIMALS is), timestamps are the
\* source's.  The record holds the fields that track_trading_volume, pause_contract
\* and blacklist_address read or write, and block_timestamp, the environment's clock.

DECIMALS_8 == 1
constants_SILVER_THRESHOLD == 10000 * DECIMALS_8
constants_GOLD_THRESHOLD == 50000 * DECIMALS_8
constants_PLATINUM_THRESHOLD == 200000 * DECIMALS_8
BRONZE_MULTIPLIER == 100
SILVER_MULTIPLIER == 120
GOLD_MULTIPLIER == 150
PLATINUM_MULTIPLIER == 200
MONTHLY_RESET_PERIOD == 30 * 24 * 60 * 60
DEFAULT_MIN_TRADE_VOLUME == 100 * DECIMALS_8
DEFAULT_TRADE_COOLDOWN == 60
DEFAULT_MAX_DAILY_VOLUME == 1000000 * DECIMALS_8
DAILY_RESET_PERIOD == 24 * 60 * 60
SUSPICIOUS_FLAG_NONE == 0

\* trading_positions.get(trader) of a trader without a position (None).
NoPosition ==
    [present |-> FALSE, total_volume |-> 0, monthly_volume |-> 0, daily_volume |-> 0,
     last_trade_timestamp |-> 0, last_daily_reset |-> 0, tier |-> "Bronze",
     pending_rewards |-> 0, claimed_rewards |-> 0, trade_count |-> 0,
     suspicious_flags |-> SUSPICIOUS_FLAG_NONE]

\* new(admin, router) with non-zero arguments, on a clock that reads 0.
TradingRewardsContract_new(admin, router) ==
    [admin |-> admin,
     authorized_router |-> router,
     rewards_pool |-> 0,
     trading_positions |-> [a \in AccountIds |-> NoPosition],
     active_traders |-> [a \in AccountIds |-> FALSE],
     active_trader_count |-> 0,
     last_distribution |-> 0,
     total_distributed |-> 0,
     paused |-> FALSE,
     reentrancy_guard |-> FALSE,
     blacklisted_addresses |-> [a \in AccountIds |-> FALSE],
     total_suspicious_flags |-> 0,
     cached_total_weight |-> 0,
     weight_cache_timestamp |-> 0,
     min_trade_volume |-> DEFAULT_MIN_TRADE_VOLUME,
     trade_cooldown |-> DEFAULT_TRADE_COOLDOWN,
     max_daily_volume |-> DEFAULT_MAX_DAILY_VOLUME,
     block_timestamp |-> 0,
     native_balance |-> 0]

ensure_admin(c, caller) == caller = c.admin
ensure_authorized_router(c, caller) == caller = c.authorized_router
release_reentrancy_guard(c) == [c EXCEPT !.reentrancy_guard = FALSE]

TradingRewards_calculate_tier(monthly_volume) ==
    IF monthly_volume >= constants_PLATINUM_THRESHOLD THEN "Platinum"
    ELSE IF monthly_volume >= constants_GOLD_THRESHOLD THEN "Gold"
    ELSE IF monthly_volume >= constants_SILVER_THRESHOLD THEN "Silver"
    ELSE "Bronze"

calculate_tier_weight(tier, monthly_volume) ==
    LET multiplier == CASE tier = "Bronze" -> BRONZE_MULTIPLIER
                        [] tier = "Silver" -> SILVER_MULTIPLIER
                        [] tier = "Gold" -> GOLD_MULTIPLIER
                        [] tier = "Platinum" -> PLATINUM_MULTIPLIER
        product == checked_mul(monthly_volume, multiplier)
    IN  (IF product = None THEN 0 ELSE product) \div 100

\* The caller drops the result (`let _ =`): on overflow the cache stays as it was.
update_weight_cache(c, old_weight, new_weight) ==
    LET lowered == checked_sub(c.cached_total_weight, old_weight)
        total == checked_add(IF lowered = None THEN 0 ELSE lowered, new_weight)
    IN  IF total = None THEN c
        ELSE [c EXCEPT !.cached_total_weight = total,
                       !.weight_cache_timestamp = c.block_timestamp]

\* The cooldown test of track_trading_volume (l.351-353).
cooldown_active(c, position) ==
    /\ position.last_trade_timestamp > 0
    /\ c.block_timestamp > position.last_trade_timestamp
    /\ c.block_timestamp - position.last_trade_timestamp < c.trade_cooldown

track_trading_volume(c, caller, trader, volume) ==
    LET current_time == c.block_timestamp
        c1 == [c EXCEPT !.reentrancy_guard = TRUE]
        found == c.trading_positions[trader]
        \* A trader without a position enters the active traders here, before the
        \* cooldown and the daily limit are looked at.  (active_trader_count is a
        \* u32 that a handful of traders cannot overflow.)
        c2 == IF ~found.present /\ ~c1.active_traders[trader]
              THEN [c1 EXCEPT !.active_traders[trader] = TRUE,
                              !.active_trader_count = @ + 1]
              ELSE c1
        position == IF found.present THEN found
                    ELSE [NoPosition EXCEPT !.present = TRUE,
                                            !.last_daily_reset = current_time]
        daily == IF /\ current_time > position.last_daily_reset
                    /\ current_time - position.last_daily_reset > DAILY_RESET_PERIOD
                 THEN [position EXCEPT !.daily_volume = 0,
                                       !.last_daily_reset = current_time]
                 ELSE position
        new_daily_volume == checked_add(daily.daily_volume, volume)
        monthly == IF /\ daily.last_trade_timestamp > 0
                      /\ current_time > daily.last_trade_timestamp
                      /\ current_time - daily.last_trade_timestamp > MONTHLY_RESET_PERIOD
                   THEN [daily EXCEPT !.monthly_volume = 0]
                   ELSE daily
        old_tier == monthly.tier
        total_volume == checked_add(monthly.total_volume, volume)
        monthly_volume == checked_add(monthly.monthly_volume, volume)
        new_tier == TradingRewards_calculate_tier(monthly_volume)
        c3 == IF old_tier # new_tier
              THEN update_weight_cache(c2, calculate_tier_weight(old_tier, monthly_volume),
                                       calculate_tier_weight(new_tier, monthly_volume))
              ELSE c2
        updated == [monthly EXCEPT !.total_volume = total_volume,
                                   !.monthly_volume = monthly_volume,
                                   !.daily_volume = new_daily_volume,
                                   !.last_trade_timestamp = current_time,
                                   !.trade_count = @ + 1,
                                   !.tier = new_tier]
    IN  IF c.paused THEN Err(c, "ContractPaused")
        ELSE IF ~ensure_authorized_router(c, caller) THEN Err(c, "AccessDenied")
        ELSE IF c.reentrancy_guard THEN Err(c, "ReentrancyGuardActive")
        ELSE IF trader = ZERO_ACCOUNT THEN Err(release_reentrancy_guard(c1), "ZeroAddress")
        ELSE IF volume < c.min_trade_volume
             THEN Err(release_reentrancy_guard(c1), "VolumeTooSmall")
        ELSE IF c.blacklisted_addresses[trader]
             THEN Err(release_reentrancy_guard(c1), "SuspiciousAddress")
        ELSE IF cooldown_active(c, position)
             THEN Err(release_reentrancy_guard(c2), "TradeCooldownActive")
        ELSE IF new_daily_volume = None THEN Err(release_reentrancy_guard(c2), "Overflow")
        ELSE IF new_daily_volume > c.max_daily_volume
             THEN Err(release_reentrancy_guard(c2), "DailyLimitExceeded")
        ELSE IF total_volume = None \/ monthly_volume = None
             THEN Err(release_reentrancy_guard(c2), "Overflow")
        ELSE Ok(release_reentrancy_guard(
                    [c3 EXCEPT !.trading_positions[trader] = updated]), 0, 0)

pause_contract(c, caller) ==
    IF ~ensure_admin(c, caller) THEN Err(c, "AccessDenied")
    ELSE Ok([c EXCEPT !.paused = TRUE], 0, 0)

\* fund_rewards_pool() with `amount` of native tokens attached; they return to the
\* caller when the call fails.
fund_rewards_pool(c, caller, amount) ==
    LET pool == checked_add(c.rewards_pool, amount)
    IN  IF ~ensure_admin(c, caller) THEN Err(c, "AccessDenied")
        ELSE IF c.paused THEN Err(c, "ContractPaused")
        ELSE IF pool = None THEN Err(c, "Overflow")
        ELSE Ok([c EXCEPT !.rewards_pool = pool, !.native_balance = @ + amount], 0, 0)

\* Within CACHE_VALIDITY_PERIOD or not, the cached weight is what it returns.
TradingRewards_calculate_total_weight(c) == c.cached_total_weight

\* distribute_rewards of the trading rewards.  No exit of it calls
\* release_reentrancy_guard.
TradingRewards_distribute_rewards(c, caller) ==
    LET held == [c EXCEPT !.reentrancy_guard = TRUE]
        total_weight == TradingRewards_calculate_total_weight(held)
        amount_to_distribute == c.rewards_pool
        emptied == [held EXCEPT !.rewards_pool = 0]
        total == checked_add(c.total_distributed, amount_to_distribute)
    IN  IF ~ensure_admin(c, caller) THEN Err(c, "AccessDenied")
        ELSE IF c.paused THEN Err(c, "ContractPaused")
        ELSE IF c.reentrancy_guard THEN Err(c, "ReentrancyGuardActive")
        ELSE IF c.rewards_pool = 0 THEN Err(held, "InsufficientBalance")
        ELSE IF total_weight = 0 THEN Ok(held, 0, 0)
        ELSE IF total = None THEN Err(emptied, "Overflow")
        ELSE Ok([emptied EXCEPT !.total_distributed = total,
                                !.last_distribution = c.block_timestamp], 0, 0)

\* claim_rewards of the trading rewards; v0 is the amount.  No exit of it calls
\* release_reentrancy_guard.
TradingRewards_claim_rewards(c, caller) ==
    LET held == [c EXCEPT !.reentrancy_guard = TRUE]
        position == c.trading_positions[caller]
        amount == position.pending_rewards
        claimed == checked_add(position.claimed_rewards, amount)
        c1 == [held EXCEPT !.trading_positions[caller].pending_rewards = 0,
                           !.trading_positions[caller].claimed_rewards = claimed]
    IN  IF c.paused THEN Err(c, "ContractPaused")
        ELSE IF c.reentrancy_guard THEN Err(c, "ReentrancyGuardActive")
        ELSE IF ~position.present THEN Err(held, "NoRewardsToClaim")
        ELSE IF position.pending_rewards = 0 THEN Err(held, "NoRewardsToClaim")
        ELSE IF claimed = None THEN Err(held, "Overflow")
        ELSE IF c1.native_balance < amount THEN Err(c1, "InsufficientBalance")
        ELSE Ok([c1 EXCEPT !.native_balance = @ - amount], amount, 0)

\* (total_suspicious_flags is a u32 that a handful of calls cannot overflow.)
blacklist_address(c, caller, address) ==
    IF ~ensure_admin(c, caller) THEN Err(c, "AccessDenied")
    ELSE IF address = ZERO_ACCOUNT THEN Err(c, "ZeroAddress")
    ELSE Ok([c EXCEPT !.blacklisted_addresses[address] = TRUE,
                      !.total_suspicious_flags = @ + 1], 0, 0)

---------------------------------------------------------------------------
\* SecureRouterContract (src/tests/security_tests.rs): the router that checks the
\* pause switch, the deadline and the caller's nonce before it mints in a
\* SecurePairContract of its own.  The two HashMaps are functions whose domain is
\* the set of keys inserted so far.

EmptyMap == [k \in {} |-> 0]
insert(map, key, value) ==
    [k \in DOMAIN map \cup {key} |-> IF k = key THEN value ELSE map[k]]

RouterUsers == {"user1", "user2"}

\* SecurePairContract::new: `balances` is read with unwrap_or(&0).
SecurePairContract_new(token_0, token_1) ==
    [token_0 |-> token_0, token_1 |-> token_1, reserve_0 |-> 0, reserve_1 |-> 0,
     total_supply |-> 0, balances |-> [a \in Accounts \cup RouterUsers |-> 0],
     unlocked |-> TRUE, k_last |-> 0]

SecureRouterContract_new(factory_address, wnative_address, admin) ==
    [factory |-> factory_address, wnative |-> wnative_address, admin |-> admin,
     paused |-> FALSE, pairs |-> EmptyMap, nonces |-> EmptyMap]

only_admin(r, caller) == caller = r.admin

SecureRouterContract_pause(r, caller) ==
    IF ~only_admin(r, caller) THEN Err(r, "Access denied: not admin")
    ELSE Ok([r EXCEPT !.paused = TRUE], 0, 0)

unpause(r, caller) ==
    IF ~only_admin(r, caller) THEN Err(r, "Access denied: not admin")
    ELSE Ok([r EXCEPT !.paused = FALSE], 0, 0)

when_not_paused(r) == ~r.paused
ensure_deadline(deadline, current_time) == ~(current_time > deadline)

\* nonces.get(&user).unwrap_or(&0)
current_nonce(r, user) == IF user \in DOMAIN r.nonces THEN r.nonces[user] ELSE 0

use_nonce_unrecorded(r, user, nonce) ==
    IF nonce # current_nonce(r, user) + 1 THEN Err(r, "Invalid nonce")
    ELSE Ok(r, 0, 0)
use_nonce(r, user, nonce) ==
    IF nonce # current_nonce(r, user) + 1 THEN Err(r, "Invalid nonce")
    ELSE Ok([r EXCEPT !.nonces = insert(r.nonces, user, nonce)], 0, 0)

\* `<` on the Strings of the token names, which are listed here in its order.
TokenNames == <<"TOKEN_A", "TOKEN_B">>
string_lt(a, b) ==
    \E i, j \in 1 .. Len(TokenNames) : TokenNames[i] = a /\ TokenNames[j] = b /\ i < j

\* format!("{}_{}", ..) of the two tokens in order: the pair of them stands for
\* the string.
pair_key(token_a, token_b) ==
    IF string_lt(token_a, token_b) THEN <<token_a, token_b>> ELSE <<token_b, token_a>>

secure_add_liquidity(r, caller, token_a, token_b, amount_a_desired, amount_b_desired, amount_a_min, amount_b_min, deadline, current_time, nonce) ==
    LET used == use_nonce(r, caller, nonce)
        r1 == used.st
        key == pair_key(token_a, token_b)
        r2 == IF key \notin DOMAIN r1.pairs
              THEN [r1 EXCEPT !.pairs = insert(r1.pairs, key,
                                               SecurePairContract_new(key[1], key[2]))]
              ELSE r1
        amount_a == amount_a_desired
        amount_b == amount_b_desired
        mint_result == secure_mint(r2.pairs[key], caller, amount_a, amount_b)
        r3 == [r2 EXCEPT !.pairs[key] = mint_result.st]
    IN  IF ~when_not_paused(r) THEN Err(r, "Contract is paused")
        ELSE IF ~ensure_deadline(deadline, current_time) THEN Err(r, "Transaction expired")
        ELSE IF ~used.ok THEN Err(r1, used.err)
        ELSE IF amount_a_desired = 0 \/ amount_b_desired = 0
             THEN Err(r1, "Zero amount not allowed")
        ELSE IF amount_a_min > amount_a_desired \/ amount_b_min > amount_b_desired
             THEN Err(r1, "Invalid minimum amounts")
        ELSE IF amount_a < amount_a_min THEN Err(r2, "Insufficient A amount")
        ELSE IF amount_b < amount_b_min THEN Err(r2, "Insufficient B amount")
        ELSE IF ~mint_result.ok THEN Err(r3, mint_result.err)
        ELSE Ok(r3, mint_result.v0, 0)

---------------------------------------------------------------------------
\* StakingContract, continued: the trading rewards that the rewards contract pays
\* in and the owner distributes to the stakers, and claim_rewards.

set_trading_rewards_contract(c, caller, contract_address) ==
    IF ~ensure_owner(c, caller) THEN Err(c, "AccessDenied")
    ELSE IF contract_address = ZERO_ACCOUNT THEN Err(c, "ZeroAddress")
    ELSE Ok([c EXCEPT !.trading_rewards_contract = contract_address], 0, 0)

\* fund_staking_rewards() with `amount` of native tokens attached; they return to
\* the caller when the call fails.
fund_staking_rewards(c, caller, amount) ==
    LET pool == checked_add(c.trading_rewards_pool, amount)
    IN  IF ~ensure_not_paused(c) THEN Err(c, "ContractPaused")
        ELSE IF c.trading_rewards_contract # caller THEN Err(c, "AccessDenied")
        ELSE IF amount = 0 THEN Err(c, "ZeroAmount")
        ELSE IF pool = None THEN Err(c, "Overflow")
        ELSE Ok([c EXCEPT !.trading_rewards_pool = pool, !.native_balance = @ + amount],
                0, 0)

\* The source multiplies with checked_mul(..).unwrap_or(0) in u128, where the
\* product of a stake, a tier multiplier and a quantity multiplier cannot overflow
\* (it is below 2^64 * 200 * 13000); the product is taken in full here, since the
\* scaled word is narrower than that.
calculate_staker_weight(position) ==
    LET tier_multiplier == CASE position.tier = "Bronze" -> 100
                             [] position.tier = "Silver" -> 120
                             [] position.tier = "Gold" -> 150
                             [] position.tier = "Platinum" -> 200
    IN  (position.amount * tier_multiplier * get_quantity_multiplier(position.amount)) \div 10000

\* The sum over the indices i .. staker_index - 1 (None for Err(Overflow)).
RECURSIVE total_staker_weight_from(_, _)
total_staker_weight_from(c, i) ==
    IF i >= c.staker_index THEN 0
    ELSE LET position == c.stakes[c.staker_addresses[i + 1]]
             rest == total_staker_weight_from(c, i + 1)
         IN  IF rest = None THEN None
             ELSE IF position.active THEN checked_add(rest, calculate_staker_weight(position))
             ELSE rest

calculate_total_staker_weight(c) == total_staker_weight_from(c, 0)

\* The loop `for i in start..end` of distribute_trading_rewards_paginated:
\* [ok, st, distributed_count], ok FALSE for the `?` that left the loop.
RECURSIVE distribute_batch(_, _, _, _, _)
distribute_batch(c, i, end, amount_to_distribute, total_weight) ==
    IF i >= end THEN [ok |-> TRUE, st |-> c, distributed_count |-> 0]
    ELSE
        LET staker == c.staker_addresses[i + 1]
            position == c.stakes[staker]
            product == checked_mul(amount_to_distribute, calculate_staker_weight(position))
            reward == and_then_div(product, total_weight)
            pending == checked_add(position.pending_rewards, reward)
            c1 == [c EXCEPT !.stakes[staker].pending_rewards = pending]
            rest == distribute_batch(IF position.active /\ reward > 0 THEN c1 ELSE c,
                                     i + 1, end, amount_to_distribute, total_weight)
        IN  IF ~position.active THEN rest
            ELSE IF reward = None \/ (reward > 0 /\ pending = None)
                 THEN [ok |-> FALSE, st |-> c, distributed_count |-> 0]
            ELSE IF reward > 0
                 THEN [rest EXCEPT !.distributed_count = @ + 1]
            ELSE rest

\* start_index and batch_size are None or a number; v0 is processed_count, v1 is 1
\* when the distribution is complete.
distribute_trading_rewards_paginated(c, caller, start_index, batch_size) ==
    LET held == [c EXCEPT !.locked = TRUE]
        total_weight == calculate_total_staker_weight(held)
        amount_to_distribute == c.trading_rewards_pool
        start == IF start_index = None THEN 0 ELSE start_index
        max_batch == min(IF batch_size = None THEN 100 ELSE batch_size, 100)
        end == min(start + max_batch, c.staker_index)
        batch == distribute_batch(held, start, end, amount_to_distribute, total_weight)
        processed_count == IF end > start THEN end - start ELSE 0
        is_complete == end >= c.staker_index
        new_total == checked_add(c.total_trading_rewards_distributed, amount_to_distribute)
        c1 == batch.st
        \* The pool stays as it is until a call reaches the last index.
        c3 == IF is_complete
              THEN [c1 EXCEPT !.total_trading_rewards_distributed = new_total,
                              !.trading_rewards_pool = 0]
              ELSE c1
    IN  IF ~ensure_owner(c, caller) THEN Err(c, "AccessDenied")
        ELSE IF ~ensure_not_paused(c) THEN Err(c, "ContractPaused")
        ELSE IF c.locked THEN Err(c, "Reentrancy")
        ELSE IF c.trading_rewards_pool = 0 THEN Ok(release_lock(held), 0, 1)
        ELSE IF total_weight = None THEN Err(held, "Overflow")
        ELSE IF total_weight = 0 THEN Ok(release_lock(held), 0, 1)
        ELSE IF ~batch.ok THEN Err(c1, "Overflow")
        ELSE IF is_complete /\ new_total = None THEN Err(c1, "Overflow")
        ELSE Ok(release_lock(c3), processed_count, IF is_complete THEN 1 ELSE 0)

\* v0 is the amount transferred to the caller.
claim_rewards(c, caller) ==
    IF ~ensure_not_paused(c) THEN Err(c, "ContractPaused")
    ELSE IF c.locked THEN Err(c, "Reentrancy")
    ELSE
        LET held == [c EXCEPT !.locked = TRUE]
            position == c.stakes[caller]
            current_time == c.block_timestamp
            rewards == calculate_pending_rewards(c, position, current_time)
            c1 == [held EXCEPT !.stakes[caller].last_claim = current_time,
                               !.stakes[caller].pending_rewards = 0]
            new_distributed == checked_add(c.total_rewards_distributed, rewards)
            c2 == [c1 EXCEPT !.total_rewards_distributed = new_distributed]
        IN  IF ~position.present THEN Err(held, "NoActiveStake")
            ELSE IF ~position.active THEN Err(release_lock(held), "NoActiveStake")
            ELSE IF rewards = None THEN Err(held, "Overflow")
            ELSE IF rewards = 0 THEN Ok(release_lock(held), 0, 0)
            ELSE IF new_distributed = None THEN Err(c1, "Overflow")
            ELSE IF c2.native_balance < rewards
                 THEN Err(release_lock(c2), "InsufficientBalance")
            ELSE Ok(release_lock([c2 EXCEPT !.native_balance = @ - rewards]), rewards, 0)

---------------------------------------------------------------------------
\* The state machine.

Self ==
    [reserve_0 |-> reserve_0, reserve_1 |-> reserve_1, total_supply |-> total_supply,
     balances |-> balances, unlocked |-> unlocked, k_last |-> k_last,
     block_timestamp_last |-> block_timestamp_last,
     price_0_cumulative_last |-> price_0_cumulative_last,
     price_1_cumulative_last |-> price_1_cumulative_last]

Store(s) ==
    /\ reserve_0' = s.reserve_0
    /\ reserve_1' = s.reserve_1
    /\ total_supply' = s.total_supply
    /\ balances' = s.balances
    /\ unlocked' = s.unlocked
    /\ k_last' = s.k_last
    /\ block_timestamp_last' = s.block_timestamp_last
    /\ price_0_cumulative_last' = s.price_0_cumulative_last
    /\ price_1_cumulative_last' = s.price_1_cumulative_last

\* One call: the handler's result r is stored and recorded.
Call(name, who, x0, x1, y0, y1, r) ==
    /\ steps < MaxSteps
    /\ Store(r.st)
    /\ op' = [name |-> name, who |-> who, x0 |-> x0, x1 |-> x1, y0 |-> y0, y1 |-> y1]
    /\ ret' = [ok |-> r.ok, err |-> r.err, v0 |-> r.v0, v1 |-> r.v1]
    /\ minted' = (minted \/ (name = "mint" /\ r.ok))
    /\ drained' = (drained \/ (minted /\ r.st.reserve_0 = 0 /\ r.st.reserve_1 = 0))
    /\ steps' = steps + 1
    /\ UNCHANGED <<contract, block_timestamp, ecosystem, factory, wnative, staking, trading_rewards, secure_router, credited>>

\* Inputs.
MintAmounts ==
    {<<10000, 20000>>, <<5000, 10000>>, <<1000, 2000>>, <<0, 1000>>, <<100, 100>>,
     <<1, 1>>, <<U128_MAX, U128_MAX>>, <<1, U128_MAX>>}
\* Shares to redeem: none, one, all of the holder's, half of them, one too many, and
\* exactly what the mint just before handed out.
BurnAmounts(from) ==
    {0, 1, balances[from], balances[from] \div 2, balances[from] + 1}
        \cup (IF op.name = "mint" /\ ret.ok THEN {ret.v0} ELSE {})
SecureSwapAmounts ==
    {<<0, 0, 0, 0>>, <<10, 0, 0, 50>>, <<10, 0, 0, 21>>, <<1000, 0, 0, 100>>,
     <<reserve_0, 0, 0, 1000>>, <<0, 10, 50, 0>>, <<0, 1, U128_MAX, 0>>}
SwapAmounts ==
    {<<0, 0>>, <<1, 0>>, <<0, 1>>, <<10, 10>>, <<reserve_0, 0>>}
\* The accounts that can redeem: nobody signs for the zero address.
Holders == Accounts \ {ZERO_ADDRESS}
Recipients == {"user1"}
\* Block timestamps (milliseconds): two early ones and three around 2^16, where
\* price * time_elapsed leaves the word.
Timestamps == {1, 2, MaxTime - 2, MaxTime - 1, MaxTime}

Init ==
    /\ contract \in {"PairContract", "SecurePairContract"}
    /\ reserve_0 = 0
    /\ reserve_1 = 0
    /\ total_supply = 0
    /\ balances = [a \in Accounts |-> 0]
    /\ unlocked = TRUE
    /\ k_last = 0
    /\ block_timestamp_last = 0
    /\ price_0_cumulative_last = 0
    /\ price_1_cumulative_last = 0
    /\ block_timestamp = 0
    /\ op = [name |-> "new", who |-> "", x0 |-> 0, x1 |-> 0, y0 |-> 0, y1 |-> 0]
    /\ ret = [ok |-> TRUE, err |-> "", v0 |-> 0, v1 |-> 0]
    /\ minted = FALSE
    /\ drained = FALSE
    /\ ecosystem = LunexEcosystem_new
    /\ factory = FactoryContract_new(BOB)
    /\ wnative = WnativeContract_new
    /\ staking = StakingContract_new(ALICE, DJANGO)
    /\ trading_rewards = TradingRewardsContract_new(ALICE, BOB)
    /\ secure_router = SecureRouterContract_new("factory", "wnative", "admin")
    /\ credited = 0
    /\ steps = 0

SecureMint ==
    /\ contract = "SecurePairContract"
    /\ \E to \in Accounts, a \in MintAmounts :
          Call("mint", to, a[1], a[2], 0, 0, secure_mint(Self, to, a[1], a[2]))

SecureSwap ==
    /\ contract = "SecurePairContract"
    /\ \E a \in SecureSwapAmounts :
          Call("swap", "", a[1], a[2], a[3], a[4], secure_swap(Self, a[1], a[2], a[3], a[4]))

SecureBurn ==
    /\ contract = "SecurePairContract"
    /\ \E from \in Holders : \E liquidity \in BurnAmounts(from) :
          Call("burn", from, liquidity, 0, 0, 0, secure_burn(Self, from, liquidity))

Mint ==
    /\ contract = "PairContract"
    /\ \E to \in Accounts :
          Call("mint", to, PLACEHOLDER_BALANCE - reserve_0, PLACEHOLDER_BALANCE - reserve_1,
               0, 0, mint(Self, block_timestamp, to))

Burn ==
    /\ contract = "PairContract"
    /\ \E to \in Recipients :
          Call("burn", to, balances[CONTRACT], 0, 0, 0, burn(Self, block_timestamp, to))

Swap ==
    /\ contract = "PairContract"
    /\ \E a \in SwapAmounts, to \in Recipients :
          Call("swap", to, a[1], a[2], 0, 0, swap(Self, block_timestamp, a[1], a[2], to))

Sync ==
    /\ contract = "PairContract"
    /\ Call("sync", "", 0, 0, 0, 0, sync(Self, block_timestamp))

\* lock() and unlock() called on their own, as test_reentrancy_protection does to
\* stand for an operation that holds the guard while another call arrives.
Lock ==
    LET l == lock(Self) IN
    Call("lock", "", 0, 0, 0, 0,
         IF l.ok THEN Ok(l.st, 0, 0)
         ELSE Err(l.st, IF contract = "PairContract" THEN "Locked" ELSE "Reentrancy: locked"))

Unlock ==
    Call("unlock", "", 0, 0, 0, 0, Ok(unlock(Self), 0, 0))

\* The block timestamp moves on between calls.
AdvanceTime ==
    /\ contract = "PairContract"
    /\ \E t \in Timestamps :
          /\ t > block_timestamp
          /\ t <= MaxTime
          /\ block_timestamp' = t
    /\ UNCHANGED <<contract, reserve_0, reserve_1, total_supply, balances, unlocked, k_last,
                   block_timestamp_last, price_0_cumulative_last, price_1_cumulative_last,
                   op, ret, minted, drained, ecosystem, factory, wnative, staking, trading_rewards, secure_router, credited, steps>>

Next ==
    \/ SecureMint
    \/ SecureSwap
    \/ SecureBurn
    \/ Mint
    \/ Burn
    \/ Swap
    \/ Sync
    \/ Lock
    \/ Unlock
    \/ AdvanceTime

Spec == Init /\ [][Next]_vars

---------------------------------------------------------------------------
\* The ecosystem's state machine: trades, the monthly distribution and staking on
\* one LunexEcosystem.  The pool's variables stay as constructed.

Tokens == <<"LUNES", "USDT", "BTC">>
Traders == {"alice", "bob"}
TradeAmounts == {0, 199, 1000, 2000}
StakeAmounts == {MIN_STAKE_AMOUNT - 1, MIN_STAKE_AMOUNT}
CurrentTime == 1600000000

EcoCall(name, who, x0, y0, y1, r) ==
    /\ steps < MaxSteps
    /\ ecosystem' = r.st
    /\ op' = [name |-> name, who |-> who, x0 |-> x0, x1 |-> 0, y0 |-> y0, y1 |-> y1]
    /\ ret' = [ok |-> r.ok, err |-> r.err, v0 |-> r.v0, v1 |-> r.v1]
    /\ steps' = steps + 1
    /\ UNCHANGED <<pool_vars, factory, wnative, staking, trading_rewards, secure_router, credited>>

FeeInit ==
    /\ Init
    /\ contract = "PairContract"

ExecuteTrade ==
    \E trader \in Traders, i \in 1..2, o \in 2..3, amount_in \in TradeAmounts :
        EcoCall("execute_trade", trader, amount_in, i, o,
                execute_trade(ecosystem, trader, Tokens[i], Tokens[o], amount_in))

DistributeMonthlyRewards ==
    EcoCall("distribute_monthly_rewards", "", 0, 0, 0,
            distribute_monthly_rewards(ecosystem, CurrentTime))

EcosystemStake ==
    \E user \in Traders, amount \in StakeAmounts :
        EcoCall("stake", user, amount, 0, 0,
                ecosystem_stake(ecosystem, user, amount, 30, CurrentTime))

FeeNext ==
    \/ ExecuteTrade
    \/ DistributeMonthlyRewards
    \/ EcosystemStake

FeeSpec == FeeInit /\ [][FeeNext]_vars

\* The arithmetic of PairContract stays in range: its reserves never exceed the
\* placeholder balance, so mint_internal's and burn_internal's unchecked
\* subtractions cannot underflow and swap's products cannot overflow u128.
PairReservesInRange ==
    contract = "PairContract" =>
        /\ reserve_0 <= PLACEHOLDER_BALANCE
        /\ reserve_1 <= PLACEHOLDER_BALANCE
        /\ balances[CONTRACT] <= total_supply
        /\ block_timestamp_last <= block_timestamp

---------------------------------------------------------------------------
\* The factory's state machine: any account creates pairs and tries the two setters.

FactoryCallers == {ALICE, BOB}
FactoryTokens == {ZERO_ACCOUNT, ALICE, CHARLIE, DJANGO}

FactoryCall(name, who, x0, x1, r) ==
    /\ steps < MaxSteps
    /\ factory' = r.st
    /\ op' = [name |-> name, who |-> who, x0 |-> x0, x1 |-> x1, y0 |-> 0, y1 |-> 0]
    /\ ret' = [ok |-> r.ok, err |-> r.err, v0 |-> r.v0, v1 |-> r.v1]
    /\ steps' = steps + 1
    /\ UNCHANGED <<pool_vars, ecosystem, wnative, staking, trading_rewards, secure_router, credited>>

FactoryInit ==
    /\ Init
    /\ contract = "PairContract"

CreatePair ==
    \E caller \in FactoryCallers, token_a \in FactoryTokens, token_b \in FactoryTokens :
        FactoryCall("create_pair", caller, token_a, token_b,
                    create_pair(factory, token_a, token_b))

SetFeeTo ==
    \E caller \in FactoryCallers, fee_to \in {ZERO_ACCOUNT, ALICE, CHARLIE} :
        FactoryCall("set_fee_to", caller, fee_to, 0, set_fee_to(factory, caller, fee_to))

SetFeeToSetter ==
    \E caller \in FactoryCallers, fee_to_setter \in {ZERO_ACCOUNT, ALICE, BOB} :
        FactoryCall("set_fee_to_setter", caller, fee_to_setter, 0,
                    set_fee_to_setter(factory, caller, fee_to_setter))

FactoryNext ==
    \/ CreatePair
    \/ SetFeeTo
    \/ SetFeeToSetter

FactorySpec == FactoryInit /\ [][FactoryNext]_vars

---------------------------------------------------------------------------
\* The wrapper's state machine: alice and bob wrap, unwrap, transfer and approve.

WnativeCallers == {ALICE, BOB}
WnativeAmounts == {0, 100, 200}

WnativeCall(name, who, x0, y0, y1, r) ==
    /\ steps < MaxSteps
    /\ wnative' = r.st
    /\ op' = [name |-> name, who |-> who, x0 |-> x0, x1 |-> 0, y0 |-> y0, y1 |-> y1]
    /\ ret' = [ok |-> r.ok, err |-> r.err, v0 |-> r.v0, v1 |-> r.v1]
    /\ steps' = steps + 1
    /\ UNCHANGED <<pool_vars, ecosystem, factory, staking, trading_rewards, secure_router, credited>>

WnativeInit ==
    /\ Init
    /\ contract = "PairContract"

Deposit ==
    \E caller \in WnativeCallers, transferred_value \in WnativeAmounts :
        WnativeCall("deposit", caller, transferred_value, 0, 0,
                    deposit(wnative, caller, transferred_value))

Withdraw ==
    \E caller \in WnativeCallers, amount \in WnativeAmounts :
        WnativeCall("withdraw", caller, amount, 0, 0, withdraw(wnative, caller, amount))

Transfer ==
    \E caller \in WnativeCallers, to \in WnativeCallers, value \in WnativeAmounts :
        WnativeCall("transfer", caller, value, caller, to,
                    transfer(wnative, caller, to, value))

TransferFrom ==
    \E spender \in WnativeCallers, from \in WnativeCallers, to \in WnativeCallers,
       value \in WnativeAmounts :
        WnativeCall("transfer_from", spender, value, from, to,
                    transfer_from(wnative, spender, from, to, value))

Approve ==
    \E owner \in WnativeCallers, spender \in WnativeCallers, value \in WnativeAmounts :
        WnativeCall("approve", owner, value, spender, 0,
                    approve(wnative, owner, spender, value))

WnativeNext ==
    \/ Deposit
    \/ Withdraw
    \/ Transfer
    \/ TransferFrom
    \/ Approve

WnativeSpec == WnativeInit /\ [][WnativeNext]_vars

---------------------------------------------------------------------------
\* The staking contract's state machine: alice (the owner) and bob stake, propose,
\* vote and execute while the clock moves past the voting deadline.

MaxStakingSteps == 5
StakingCallers == {ALICE, BOB}
StakeInputs == {MIN_STAKE, MIN_PROPOSAL_POWER}
\* Votes and executions address the first proposal: before it exists the id is invalid.
ProposalIds == {1}
ProposedFees == {PROPOSAL_FEE \div 2}
\* Days on the clock: the proposals of day 0 close on day VOTING_PERIOD.
StakingTimestamps == {VOTING_PERIOD, VOTING_PERIOD + 1}

StakingCall(name, who, x0, x1, y0, r) ==
    /\ steps < MaxStakingSteps
    /\ staking' = r.st
    /\ op' = [name |-> name, who |-> who, x0 |-> x0, x1 |-> x1, y0 |-> y0, y1 |-> 0]
    /\ ret' = [ok |-> r.ok, err |-> r.err, v0 |-> r.v0, v1 |-> r.v1]
    /\ steps' = steps + 1
    /\ UNCHANGED <<pool_vars, ecosystem, factory, wnative, trading_rewards, secure_router, credited>>

StakingInit ==
    /\ Init
    /\ contract = "PairContract"

Stake ==
    \E caller \in StakingCallers, amount \in StakeInputs :
        StakingCall("stake", caller, amount, MIN_DURATION, 0,
                    stake(staking, caller, amount, MIN_DURATION))

Unstake ==
    \E caller \in StakingCallers :
        StakingCall("unstake", caller, 0, 0, 0, unstake(staking, caller))

CreateProposal ==
    \E caller \in StakingCallers, token_address \in {CHARLIE} :
        StakingCall("create_proposal", caller, token_address, PROPOSAL_FEE, 0,
                    create_proposal(staking, caller, token_address, PROPOSAL_FEE))

ProposeFeeChange ==
    \E caller \in StakingCallers, new_fee \in ProposedFees :
        StakingCall("propose_fee_change", caller, new_fee, PROPOSAL_FEE, 0,
                    propose_fee_change(staking, caller, new_fee, PROPOSAL_FEE))

Vote ==
    \E caller \in StakingCallers, proposal_id \in ProposalIds, in_favor \in BOOLEAN :
        StakingCall("vote", caller, proposal_id, 0, IF in_favor THEN 1 ELSE 0,
                    vote(staking, caller, proposal_id, in_favor))

ExecuteProposal ==
    \E proposal_id \in ProposalIds :
        StakingCall("execute_proposal", BOB, proposal_id, 0, 0,
                    execute_proposal(staking, proposal_id))

Pause ==
    \E caller \in StakingCallers :
        StakingCall("pause", caller, 0, 0, 0, pause(staking, caller))

StakingAdvanceTime ==
    /\ \E t \in StakingTimestamps :
          /\ t > staking.block_timestamp
          /\ staking' = [staking EXCEPT !.block_timestamp = t]
    /\ UNCHANGED <<pool_vars, op, ret, steps, ecosystem, factory, wnative, trading_rewards, secure_router, credited>>

StakingNext ==
    \/ Stake
    \/ Unstake
    \/ CreateProposal
    \/ ProposeFeeChange
    \/ Vote
    \/ ExecuteProposal
    \/ Pause
    \/ StakingAdvanceTime

StakingSpec == StakingInit /\ [][StakingNext]_vars

---------------------------------------------------------------------------
\* The state machine of the trading rewards: alice (the admin) and bob (the router)
\* report trades of charlie and django, pause the contract and blacklist a trader
\* while the clock moves through a cooldown and past a day.

MaxRewardsSteps == 4
RewardsCallers == {ALICE, BOB}
RewardsTraders == {ZERO_ACCOUNT, CHARLIE, DJANGO}
\* Below the minimum, a Silver month, most of a day's limit, more than a day's limit.
TradeVolumes ==
    {DEFAULT_MIN_TRADE_VOLUME \div 2, constants_SILVER_THRESHOLD,
     DEFAULT_MAX_DAILY_VOLUME - DEFAULT_MAX_DAILY_VOLUME \div 5,
     DEFAULT_MAX_DAILY_VOLUME + DEFAULT_MAX_DAILY_VOLUME \div 10}
\* A first trade, half a cooldown later, a cooldown later, a day later.
FirstTradeTime == 100
RewardsTimestamps ==
    {FirstTradeTime, FirstTradeTime + DEFAULT_TRADE_COOLDOWN \div 2,
     FirstTradeTime + DEFAULT_TRADE_COOLDOWN + 1,
     FirstTradeTime + DEFAULT_TRADE_COOLDOWN + DAILY_RESET_PERIOD + 2}

RewardsCall(name, who, x0, y0, r) ==
    /\ steps < MaxRewardsSteps
    /\ trading_rewards' = r.st
    /\ op' = [name |-> name, who |-> who, x0 |-> x0, x1 |-> 0, y0 |-> y0, y1 |-> 0]
    /\ ret' = [ok |-> r.ok, err |-> r.err, v0 |-> r.v0, v1 |-> r.v1]
    /\ steps' = steps + 1
    /\ UNCHANGED <<pool_vars, ecosystem, factory, wnative, staking, secure_router, credited>>

RewardsInit ==
    /\ Init
    /\ contract = "PairContract"

TrackTradingVolume ==
    \E caller \in RewardsCallers, trader \in RewardsTraders, volume \in TradeVolumes :
        RewardsCall("track_trading_volume", caller, volume, trader,
                    track_trading_volume(trading_rewards, caller, trader, volume))

PauseContract ==
    \E caller \in RewardsCallers :
        RewardsCall("pause_contract", caller, 0, 0, pause_contract(trading_rewards, caller))

BlacklistAddress ==
    \E caller \in RewardsCallers, address \in {CHARLIE} :
        RewardsCall("blacklist_address", caller, 0, address,
                    blacklist_address(trading_rewards, caller, address))

RewardsAdvanceTime ==
    /\ \E t \in RewardsTimestamps :
          /\ t > trading_rewards.block_timestamp
          /\ trading_rewards' = [trading_rewards EXCEPT !.block_timestamp = t]
    /\ UNCHANGED <<pool_vars, op, ret, steps, ecosystem, factory, wnative, staking, secure_router, credited>>

RewardsNext ==
    \/ TrackTradingVolume
    \/ PauseContract
    \/ BlacklistAddress
    \/ RewardsAdvanceTime

RewardsSpec == RewardsInit /\ [][RewardsNext]_vars

---------------------------------------------------------------------------
\* The secure router's state machine: user1 and user2 add liquidity to the pool of
\* TOKEN_A and TOKEN_B and spend nonces, the admin pauses and unpauses.

MaxRouterSteps == 4
RouterCallers == {"admin", "user1"}
NonceInputs == 0 .. 3
\* (amount_a_desired, amount_b_desired): the deposit of the tests and a zero amount.
DesiredAmounts == {<<1000, 2000>>, <<0, 2000>>}
\* (amount_a_min, amount_b_min): within the deposit, and above it.
MinAmounts == {<<900, 1800>>, <<1100, 1800>>}
DEADLINE == 9999
\* current_time: before the deadline and after it.
CurrentTimes == {1000, 10000}
\* (token_a, token_b), in either order.
TokenInputs == {<<TokenNames[1], TokenNames[2]>>, <<TokenNames[2], TokenNames[1]>>}

RouterCall(name, who, x0, x1, y0, y1, r) ==
    /\ steps < MaxRouterSteps
    /\ secure_router' = r.st
    /\ op' = [name |-> name, who |-> who, x0 |-> x0, x1 |-> x1, y0 |-> y0, y1 |-> y1]
    /\ ret' = [ok |-> r.ok, err |-> r.err, v0 |-> r.v0, v1 |-> r.v1]
    /\ steps' = steps + 1
    /\ UNCHANGED <<pool_vars, ecosystem, factory, wnative, staking, trading_rewards, credited>>

RouterInit ==
    /\ Init
    /\ contract = "SecurePairContract"

SecureAddLiquidity ==
    \E caller \in RouterUsers, a \in DesiredAmounts, current_time \in CurrentTimes,
       nonce \in NonceInputs, tokens \in TokenInputs, m \in MinAmounts :
        RouterCall("secure_add_liquidity", caller, a[1], a[2], nonce, current_time,
                   secure_add_liquidity(secure_router, caller, tokens[1], tokens[2],
                                        a[1], a[2], m[1], m[2],
                                        DEADLINE, current_time, nonce))

UseNonce ==
    \E user \in RouterUsers, nonce \in NonceInputs :
        RouterCall("use_nonce", user, 0, 0, nonce, 0, use_nonce(secure_router, user, nonce))

RouterPause ==
    \E caller \in RouterCallers :
        RouterCall("pause", caller, 0, 0, 0, 0, SecureRouterContract_pause(secure_router, caller))

RouterUnpause ==
    \E caller \in RouterCallers :
        RouterCall("unpause", caller, 0, 0, 0, 0, unpause(secure_router, caller))

RouterNext ==
    \/ SecureAddLiquidity
    \/ UseNonce
    \/ RouterPause
    \/ RouterUnpause

RouterSpec == RouterInit /\ [][RouterNext]_vars

---------------------------------------------------------------------------
\* The staking contract's rewards: alice (the owner) and bob stake, unstake and
\* claim, charlie (the trading rewards contract) pays trading rewards in, and the
\* owner distributes them page by page.

MaxLedgerSteps == 6
\* fund_staking_rewards' attached value.
FundedAmounts == {600}
\* (start_index, batch_size): everything at once, the first index alone, the second.
Pages == {<<None, None>>, <<0, 1>>, <<1, 1>>}

LedgerCall(name, who, x0, x1, r) ==
    /\ steps < MaxLedgerSteps
    /\ staking' = r.st
    /\ op' = [name |-> name, who |-> who, x0 |-> x0, x1 |-> x1, y0 |-> 0, y1 |-> 0]
    /\ ret' = [ok |-> r.ok, err |-> r.err, v0 |-> r.v0, v1 |-> r.v1]
    /\ steps' = steps + 1
    /\ credited' = credited + SumOver([a \in AccountIds |->
                                          r.st.stakes[a].pending_rewards
                                              - staking.stakes[a].pending_rewards],
                                      IF name = "distribute_trading_rewards_paginated"
                                      THEN AccountIds ELSE {})
    /\ UNCHANGED <<pool_vars, ecosystem, factory, wnative, trading_rewards, secure_router>>

LedgerStake ==
    \E caller \in StakingCallers :
        LedgerCall("stake", caller, MIN_STAKE, MIN_DURATION,
                   stake(staking, caller, MIN_STAKE, MIN_DURATION))

LedgerUnstake ==
    \E caller \in StakingCallers :
        LedgerCall("unstake", caller, 0, 0, unstake(staking, caller))

ClaimRewards ==
    \E caller \in StakingCallers :
        LedgerCall("claim_rewards", caller, 0, 0, claim_rewards(staking, caller))

SetTradingRewardsContract ==
    \E caller \in StakingCallers :
        LedgerCall("set_trading_rewards_contract", caller, CHARLIE, 0,
                   set_trading_rewards_contract(staking, caller, CHARLIE))

FundStakingRewards ==
    \E caller \in {BOB, CHARLIE}, amount \in FundedAmounts :
        LedgerCall("fund_staking_rewards", caller, amount, 0,
                   fund_staking_rewards(staking, caller, amount))

DistributeTradingRewardsPaginated ==
    \E caller \in StakingCallers, page \in Pages :
        LedgerCall("distribute_trading_rewards_paginated", caller, page[1], page[2],
                   distribute_trading_rewards_paginated(staking, caller, page[1], page[2]))

LedgerAdvanceTime ==
    /\ \E t \in StakingTimestamps :
          /\ t > staking.block_timestamp
          /\ staking' = [staking EXCEPT !.block_timestamp = t]
    /\ UNCHANGED <<pool_vars, op, ret, steps, ecosystem, factory, wnative, trading_rewards,
                   secure_router, credited>>

LedgerNext ==
    \/ LedgerStake
    \/ LedgerUnstake
    \/ ClaimRewards
    \/ SetTradingRewardsContract
    \/ FundStakingRewards
    \/ DistributeTradingRewardsPaginated
    \/ LedgerAdvanceTime

LedgerSpec == StakingInit /\ [][LedgerNext]_vars

---------------------------------------------------------------------------
\* The payout of the trading rewards: the router reports a Silver month of charlie
\* or django, alice and bob fund the pool and distribute it, the traders claim.

PayoutVolumes == {constants_SILVER_THRESHOLD}
PayoutTraders == {CHARLIE, DJANGO}

PayoutTrackTradingVolume ==
    \E caller \in RewardsCallers, trader \in PayoutTraders, volume \in PayoutVolumes :
        RewardsCall("track_trading_volume", caller, volume, trader,
                    track_trading_volume(trading_rewards, caller, trader, volume))

FundRewardsPool ==
    \E caller \in RewardsCallers, amount \in FundedAmounts :
        RewardsCall("fund_rewards_pool", caller, amount, 0,
                    fund_rewards_pool(trading_rewards, caller, amount))

DistributeRewards ==
    \E caller \in RewardsCallers :
        RewardsCall("distribute_rewards", caller, 0, 0,
                    TradingRewards_distribute_rewards(trading_rewards, caller))

ClaimTradingRewards ==
    \E caller \in PayoutTraders :
        RewardsCall("claim_rewards", caller, 0, 0,
                    TradingRewards_claim_rewards(trading_rewards, caller))

PayoutNext ==
    \/ PayoutTrackTradingVolume
    \/ FundRewardsPool
    \/ DistributeRewards
    \/ ClaimTradingRewards
    \/ PauseContract
    \/ RewardsAdvanceTime

PayoutSpec == RewardsInit /\ [][PayoutNext]_vars

---------------------------------------------------------------------------
\* Vocabulary of the properties.

Mutating == {"mint", "burn", "swap"}
LockedErrors == {"Locked", "Reentrancy: locked"}
\* The step is a call (AdvanceTime is the only step that is not).
IsCall == steps' # steps
\* The reserve ledger with its price accumulator.
Ledger ==
    <<reserve_0, reserve_1, block_timestamp_last,
      price_0_cumulative_last, price_1_cumulative_last>>
PoolState ==
    <<reserve_0, reserve_1, total_supply, balances, block_timestamp_last,
      price_0_cumulative_last, price_1_cumulative_last>>

---------------------------------------------------------------------------
\* C1: whenever a mint, burn or swap that found the guard free returns, with Ok or
\* with any error, the guard is free again.
C1_GuardReleasedOnEveryExit ==
    (op.name \in Mutating /\ ret.err \notin LockedErrors) => unlocked

\* C2: a mint, burn or swap that returns an error leaves reserves, share supply,
\* every holder's balance, both cumulative prices and the last-update time as they
\* were before the call.
C2_ErrorLeavesPoolUnchanged ==
    [][(IsCall /\ op'.name \in Mutating /\ ~ret'.ok) => UNCHANGED PoolState]_vars

\* C3: between operations reserve_0 > 0, reserve_1 > 0 and total_supply > 0 are all
\* true or all false.
C3_ReservesAndSupplyTogether ==
    /\ (reserve_0 > 0) <=> (reserve_1 > 0)
    /\ (reserve_1 > 0) <=> (total_supply > 0)

\* C4: every swap that succeeds leaves reserve_0 * reserve_1 at least what it was.
C4_ProductNeverDecreases ==
    [][(IsCall /\ op'.name = "swap" /\ ret'.ok)
          => reserve_0' * reserve_1' >= reserve_0 * reserve_1]_vars

\* C4's case: a swap succeeded and the product is above the one the last mint left.
C4_Witness ==
    /\ contract = "SecurePairContract"
    /\ op.name = "swap" /\ ret.ok
    /\ k_last > 0
    /\ reserve_0 * reserve_1 > k_last

\* C5: once a mint has succeeded, total_supply is at least MINIMUM_LIQUIDITY and the
\* sink holds at least MINIMUM_LIQUIDITY shares, whatever the holders burn.
C5_MinimumLiquidityPermanent ==
    minted => /\ total_supply >= MINIMUM_LIQUIDITY
              /\ balances[ZERO_ADDRESS] >= MINIMUM_LIQUIDITY

\* C6: the holders' balances, the sink's included, add up to total_supply.
C6_BalancesSumToSupply ==
    SumOver(balances, Accounts) = total_supply

\* C7: a mint, burn or swap issued while the guard is held returns the lock error
\* and changes nothing of the pool, the guard included.
C7_NestedCallRejected ==
    [][(IsCall /\ op'.name \in Mutating /\ ~unlocked)
          => /\ ~ret'.ok
             /\ ret'.err \in LockedErrors
             /\ UNCHANGED <<PoolState, unlocked, k_last>>]_vars

\* C7's case: a mutating call arrived while the guard was held and was turned away.
C7_Witness ==
    /\ op.name \in Mutating
    /\ ret.err \in LockedErrors
    /\ ~unlocked
    /\ total_supply > 0

\* C8: no call changes the reserves, the cumulative prices or the last-update time
\* while the guard is held.
C8_LedgerFrozenWhileGuardHeld ==
    [][(IsCall /\ ~unlocked) => UNCHANGED Ledger]_vars

\* C9: a swap that reaches the invariant check (guard free, outputs not both zero
\* and each below its reserve, arithmetic within the word) with fee-adjusted
\* balances whose product is below reserve_0 * reserve_1 returns the K-invariant
\* error and changes nothing of the pool, the guard included.
C9_FeeAdjusted(reserve, amount_out, amount_in) ==
    reserve - amount_out + (amount_in * SECURE_FEE_NUMERATOR) \div SECURE_FEE_DENOMINATOR

C9_InWord(a, b) == a = 0 \/ b <= U128_MAX \div a

C9_ReachesCheckBelowK(out_0, out_1, in_0, in_1) ==
    /\ unlocked
    /\ ~(out_0 = 0 /\ out_1 = 0)
    /\ out_0 < reserve_0 /\ out_1 < reserve_1
    /\ in_0 <= U128_MAX - (reserve_0 - out_0)
    /\ in_1 <= U128_MAX - (reserve_1 - out_1)
    /\ C9_InWord(in_0, SECURE_FEE_NUMERATOR)
    /\ C9_InWord(in_1, SECURE_FEE_NUMERATOR)
    /\ C9_InWord(reserve_0, reserve_1)
    /\ C9_InWord(C9_FeeAdjusted(reserve_0, out_0, in_0), C9_FeeAdjusted(reserve_1, out_1, in_1))
    /\ C9_FeeAdjusted(reserve_0, out_0, in_0) * C9_FeeAdjusted(reserve_1, out_1, in_1)
          < reserve_0 * reserve_1

C9_KViolationRejected ==
    [][(/\ IsCall
        /\ contract = "SecurePairContract"
        /\ op'.name = "swap"
        /\ C9_ReachesCheckBelowK(op'.x0, op'.x1, op'.y0, op'.y1))
          => /\ ~ret'.ok
             /\ ret'.err = "K-invariant violation"
             /\ UNCHANGED <<PoolState, unlocked, k_last>>]_vars

\* C9's case: with reserves (10000, 20000), 1000 of asset 0 was requested for 100 of
\* asset 1 and the swap was rejected.
C9_Witness ==
    /\ op = [name |-> "swap", who |-> "", x0 |-> 1000, x1 |-> 0, y0 |-> 0, y1 |-> 100]
    /\ ret.err = "K-invariant violation"
    /\ reserve_0 = 10000 /\ reserve_1 = 20000
    /\ unlocked

\* C10: a swap that succeeds sets each reserve to reserve - out + in, with the whole
\* input, and changes neither total_supply nor any holder's balance.
C10_SwapCommitsFullBalances ==
    [][(IsCall /\ op'.name = "swap" /\ ret'.ok)
          => /\ reserve_0' = reserve_0 - op'.x0 + op'.y0
             /\ reserve_1' = reserve_1 - op'.x1 + op'.y1
             /\ UNCHANGED <<total_supply, balances>>]_vars

\* C10's case: 50 of asset 1 were paid for 10 of asset 0, and all 50 are in the
\* reserve (the discounted input would be 49).
C10_Witness ==
    /\ op = [name |-> "swap", who |-> "", x0 |-> 10, x1 |-> 0, y0 |-> 0, y1 |-> 50]
    /\ ret.ok
    /\ reserve_0 = 9990 /\ reserve_1 = 20050
    /\ total_supply = 14042

---------------------------------------------------------------------------
\* Vocabulary of the minting and burning properties.

\* r is the integer square root of n.
IsFloorSqrt(r, n) == r >= 0 /\ r * r <= n /\ (r + 1) * (r + 1) > n
\* The account whose shares a burn redeems: PairContract redeems the shares held by
\* the pool's own account, secure_burn those of `from`.
Redeemer(o) == IF contract = "PairContract" THEN CONTRACT ELSE o.who
\* What the sink and the recipient must hold after a genesis mint of `shares`.
GenesisBalances(to, shares) ==
    IF to = ZERO_ADDRESS
    THEN balances'[ZERO_ADDRESS] = MINIMUM_LIQUIDITY + shares
    ELSE /\ balances'[ZERO_ADDRESS] = MINIMUM_LIQUIDITY
         /\ balances'[to] = balances[to] + shares

\* C11: a mint that succeeds on a pool whose total_supply is 0 hands the recipient
\* floor(sqrt(amount_0 * amount_1)) - MINIMUM_LIQUIDITY shares and the sink
\* MINIMUM_LIQUIDITY, and leaves total_supply = floor(sqrt(amount_0 * amount_1));
\* for (10000, 20000) that is 14042 shares, reserves (10000, 20000), supply 14142.
C11_GenesisMint ==
    [][(IsCall /\ op'.name = "mint" /\ ret'.ok /\ total_supply = 0)
          => /\ IsFloorSqrt(ret'.v0 + MINIMUM_LIQUIDITY, op'.x0 * op'.x1)
             /\ GenesisBalances(op'.who, ret'.v0)
             /\ total_supply' = ret'.v0 + MINIMUM_LIQUIDITY
             /\ (op'.x0 = 10000 /\ op'.x1 = 20000 /\ reserve_0 = 0 /\ reserve_1 = 0)
                   => /\ ret'.v0 = 14042
                      /\ reserve_0' = 10000 /\ reserve_1' = 20000
                      /\ total_supply' = 14142]_vars

\* C12: a mint that succeeds on a funded pool hands out
\* min(amount_0 * total_supply / reserve_0, amount_1 * total_supply / reserve_1)
\* shares, computed from the supply and reserves before the call, never zero shares,
\* and adds the deposited amounts to the reserves; (5000, 10000) after the genesis
\* deposit (10000, 20000) mints 7071.
C12_SubsequentMint ==
    [][(IsCall /\ op'.name = "mint" /\ ret'.ok /\ total_supply > 0)
          => /\ ret'.v0 = min((op'.x0 * total_supply) \div reserve_0,
                              (op'.x1 * total_supply) \div reserve_1)
             /\ ret'.v0 > 0
             /\ reserve_0' = reserve_0 + op'.x0
             /\ reserve_1' = reserve_1 + op'.x1
             /\ (/\ op'.x0 = 5000 /\ op'.x1 = 10000
                 /\ reserve_0 = 10000 /\ reserve_1 = 20000 /\ k_last = 200000000)
                   => ret'.v0 = 7071]_vars

\* C13: a burn of `shares` that succeeds returns floor(shares * reserve_i /
\* total_supply) of each asset, from the reserves and supply before the call, and
\* takes those amounts off the reserves and `shares` off total_supply and off the
\* redeemer's balance.
C13_BurnReleasesProRata ==
    [][(IsCall /\ op'.name = "burn" /\ ret'.ok)
          => /\ ret'.v0 = (op'.x0 * reserve_0) \div total_supply
             /\ ret'.v1 = (op'.x0 * reserve_1) \div total_supply
             /\ reserve_0' = reserve_0 - ret'.v0
             /\ reserve_1' = reserve_1 - ret'.v1
             /\ total_supply' = total_supply - op'.x0
             /\ balances'[Redeemer(op')] = balances[Redeemer(op')] - op'.x0]_vars

\* C13's case: 10531 of 21063 shares were redeemed against reserves (15000, 30000);
\* both divisions leave a remainder, which stays in the pool.
C13_Witness ==
    /\ op.name = "burn" /\ op.x0 = 10531 /\ ret.ok
    /\ ret.v0 = 7499 /\ ret.v1 = 14999
    /\ reserve_0 = 7501 /\ reserve_1 = 15001
    /\ total_supply = 10532

\* The errors with which a burn is turned away for want of liquidity:
\* PairError::InsufficientLiquidityBurned, and the three messages of secure_burn.
BurnRejections ==
    {"InsufficientLiquidityBurned", "Insufficient liquidity burned",
     "No liquidity to burn", "Insufficient user liquidity"}

\* C14: a burn issued with the guard free is turned away with the
\* insufficient-liquidity error, and changes nothing, when total_supply is 0, when
\* the shares exceed the redeemer's balance, or when floor(shares * reserve_i /
\* total_supply) is 0 for either asset.
C14_NothingToRelease(shares, redeemer) ==
    \/ total_supply = 0
    \/ shares > balances[redeemer]
    \/ /\ total_supply > 0
       /\ C9_InWord(shares, reserve_0) /\ C9_InWord(shares, reserve_1)
       /\ \/ (shares * reserve_0) \div total_supply = 0
          \/ (shares * reserve_1) \div total_supply = 0

C14_BurnRejected ==
    [][(/\ IsCall /\ op'.name = "burn" /\ unlocked
        /\ C14_NothingToRelease(op'.x0, Redeemer(op')))
          => /\ ~ret'.ok
             /\ ret'.err \in BurnRejections
             /\ UNCHANGED <<PoolState, unlocked, k_last>>]_vars

\* C14's case: on a funded pool a holder asked for one share more than it holds.
C14_Witness ==
    /\ op.name = "burn" /\ ret.err = "Insufficient user liquidity"
    /\ op.x0 = balances[op.who] + 1
    /\ balances[op.who] > 0
    /\ total_supply > 0 /\ unlocked

\* C15: a swap issued with the guard free is turned away with the
\* insufficient-output error when both requested outputs are 0, whatever the
\* reserves, and otherwise with the insufficient-liquidity error when a requested
\* output is greater than or equal to its reserve; neither changes anything.
C15_SwapPreconditions ==
    [][(IsCall /\ op'.name = "swap" /\ unlocked)
          => /\ (op'.x0 = 0 /\ op'.x1 = 0)
                   => /\ ~ret'.ok
                      /\ ret'.err \in {"InsufficientOutputAmount", "Insufficient output amount"}
                      /\ UNCHANGED <<PoolState, unlocked, k_last>>
             /\ (/\ ~(op'.x0 = 0 /\ op'.x1 = 0)
                 /\ (op'.x0 >= reserve_0 \/ op'.x1 >= reserve_1))
                   => /\ ~ret'.ok
                      /\ ret'.err \in {"InsufficientLiquidity", "Insufficient liquidity"}
                      /\ UNCHANGED <<PoolState, unlocked, k_last>>]_vars

\* C15's case: 1000 of asset 0 were requested from a reserve of exactly 1000.
C15_Witness ==
    /\ contract = "PairContract"
    /\ op.name = "swap" /\ op.x0 = 1000 /\ op.x1 = 0
    /\ reserve_0 = 1000 /\ reserve_1 = 1000
    /\ ret.err = "InsufficientLiquidity"
    /\ unlocked

\* C16: the cumulative prices and block_timestamp_last never decrease.  A mint,
\* burn, swap or sync that succeeds adds time_elapsed * (reserve_1 * UQ112 /
\* reserve_0) to price_0_cumulative_last and the symmetric term to
\* price_1_cumulative_last, from the reserves before the call, exactly when the block
\* timestamp is past block_timestamp_last and both of those reserves are non-zero;
\* otherwise it leaves both cumulative prices as they were.
C16_Accumulates ==
    /\ block_timestamp > block_timestamp_last
    /\ reserve_0 # 0
    /\ reserve_1 # 0

C16_PriceAccumulator ==
    [][/\ price_0_cumulative_last' >= price_0_cumulative_last
       /\ price_1_cumulative_last' >= price_1_cumulative_last
       /\ block_timestamp_last' >= block_timestamp_last
       /\ (/\ IsCall /\ contract = "PairContract" /\ ret'.ok
           /\ op'.name \in Mutating \cup {"sync"})
             => /\ block_timestamp_last' = block_timestamp
                /\ IF C16_Accumulates
                   THEN /\ price_0_cumulative_last' = price_0_cumulative_last
                              + (block_timestamp - block_timestamp_last)
                                   * ((reserve_1 * UQ112) \div reserve_0)
                        /\ price_1_cumulative_last' = price_1_cumulative_last
                              + (block_timestamp - block_timestamp_last)
                                   * ((reserve_0 * UQ112) \div reserve_1)
                   ELSE UNCHANGED <<price_0_cumulative_last, price_1_cumulative_last>>]_vars

\* C16's case: a burn two milliseconds after the mint added 2 * UQ112 to both
\* cumulative prices, from the reserves (1000, 1000) the burn found.
C16_Witness ==
    /\ contract = "PairContract"
    /\ op.name = "burn" /\ ret.ok
    /\ block_timestamp_last = 2
    /\ price_0_cumulative_last = 2 * UQ112
    /\ price_1_cumulative_last = 2 * UQ112
    /\ reserve_0 < PLACEHOLDER_BALANCE

\* Every stored quantity is a value of the word.
StoredInWord ==
    /\ reserve_0 \in 0..U128_MAX
    /\ reserve_1 \in 0..U128_MAX
    /\ total_supply \in 0..U128_MAX
    /\ \A a \in Accounts : balances[a] \in 0..U128_MAX
    /\ k_last \in 0..U128_MAX
    /\ price_0_cumulative_last \in 0..U128_MAX
    /\ price_1_cumulative_last \in 0..U128_MAX

\* The errors that report an overflow or underflow: PairError::Overflow and the
\* messages of the checked steps of SecurePairContract.
OverflowErrors ==
    {"Overflow",
     "Overflow in reserve_0", "Overflow in reserve_1", "Overflow in liquidity calculation",
     "Overflow in liquidity_a", "Overflow in liquidity_b", "Overflow in total_supply",
     "Overflow in user balance", "Overflow in K-invariant",
     "Underflow in reserve_0", "Underflow in reserve_1", "Underflow in total_supply",
     "Overflow in K-invariant before", "Overflow in K-invariant after",
     "Overflow in fee calculation", "Overflow in balance_0", "Overflow in balance_1",
     "Overflow in amount_0 calculation", "Overflow in amount_1 calculation"}

\* A deposit (a0, a1) into a SecurePairContract whose reserve sums or share
\* arithmetic leave the word.
C17_MintOverflows(a0, a1) ==
    /\ contract = "SecurePairContract" /\ unlocked
    /\ a0 > 0 /\ a1 > 0
    /\ \/ a0 > U128_MAX - reserve_0
       \/ a1 > U128_MAX - reserve_1
       \/ /\ total_supply = 0
          /\ (~C9_InWord(a0, a1) \/ a0 * a1 + 1 > U128_MAX)
       \/ /\ total_supply > 0 /\ reserve_0 > 0 /\ reserve_1 > 0
          /\ (~C9_InWord(a0, total_supply) \/ ~C9_InWord(a1, total_supply))

\* A secure_swap that passes the output tests and whose input sums or fee products
\* leave the word.
C17_SwapOverflows(out_0, out_1, in_0, in_1) ==
    /\ contract = "SecurePairContract" /\ unlocked
    /\ ~(out_0 = 0 /\ out_1 = 0)
    /\ out_0 < reserve_0 /\ out_1 < reserve_1
    /\ \/ in_0 > U128_MAX - (reserve_0 - out_0)
       \/ in_1 > U128_MAX - (reserve_1 - out_1)
       \/ ~C9_InWord(in_0, SECURE_FEE_NUMERATOR)
       \/ ~C9_InWord(in_1, SECURE_FEE_NUMERATOR)

\* A sync of a PairContract whose price accumulation leaves the word.
C17_SyncOverflows ==
    /\ contract = "PairContract"
    /\ C16_Accumulates
    /\ LET price_0 == (reserve_1 * UQ112) \div reserve_0
           time_elapsed == block_timestamp - block_timestamp_last IN
       \/ ~C9_InWord(price_0, time_elapsed)
       \/ price_0 * time_elapsed > U128_MAX - price_0_cumulative_last

\* C17: every stored quantity stays a value of the word, and a mint, swap or sync
\* whose arithmetic would leave the word returns an overflow error.
C17_NoWrappedValue ==
    [][IsCall =>
         /\ StoredInWord'
         /\ ((\/ (op'.name = "mint" /\ C17_MintOverflows(op'.x0, op'.x1))
              \/ (op'.name = "swap" /\ C17_SwapOverflows(op'.x0, op'.x1, op'.y0, op'.y1))
              \/ (op'.name = "sync" /\ C17_SyncOverflows))
               => (~ret'.ok /\ ret'.err \in OverflowErrors))]_vars

\* C18: once a pool that had been funded has both reserves back at 0, a deposit
\* whose root exceeds MINIMUM_LIQUIDITY is accepted as a genesis deposit again: it
\* mints floor(sqrt(amount_0 * amount_1)) - MINIMUM_LIQUIDITY shares and leaves
\* MINIMUM_LIQUIDITY with the sink.
C18_GenesisDeposit(a0, a1) ==
    /\ a0 > 0 /\ a1 > 0
    /\ C9_InWord(a0, a1)
    /\ a0 * a1 < U128_MAX
    /\ a0 * a1 >= (MINIMUM_LIQUIDITY + 1) * (MINIMUM_LIQUIDITY + 1)

C18_DrainedPoolRefunded ==
    [][(/\ IsCall /\ op'.name = "mint" /\ unlocked
        /\ minted /\ reserve_0 = 0 /\ reserve_1 = 0
        /\ C18_GenesisDeposit(op'.x0, op'.x1))
          => /\ ret'.ok
             /\ IsFloorSqrt(ret'.v0 + MINIMUM_LIQUIDITY, op'.x0 * op'.x1)
             /\ GenesisBalances(op'.who, ret'.v0)
             /\ reserve_0' = op'.x0 /\ reserve_1' = op'.x1]_vars

\* C18's case: the pool was funded, emptied, and funded again with (10000, 20000).
C18_Witness ==
    /\ drained
    /\ op.name = "mint" /\ op.x0 = 10000 /\ op.x1 = 20000 /\ ret.ok
    /\ ret.v0 = 14042
    /\ balances[ZERO_ADDRESS] = MINIMUM_LIQUIDITY
    /\ reserve_0 = 10000 /\ reserve_1 = 20000

\* C19: when a mint for the deposit (a0, a1) succeeds and the very next call burns
\* exactly the shares it returned, from the account that received them, the burn
\* returns at most a0 of asset 0 and at most a1 of asset 1.
C19_MintBurnRoundTrip ==
    [][(/\ IsCall
        /\ op.name = "mint" /\ ret.ok
        /\ op'.name = "burn" /\ ret'.ok
        /\ op'.x0 = ret.v0
        /\ Redeemer(op') = op.who)
          => /\ ret'.v0 <= op.x0
             /\ ret'.v1 <= op.x1]_vars

\* C19's case: (100, 100) was deposited into a pool of (10000, 20000) for 70 shares,
\* and the 70 shares were redeemed at once for (50, 99).
C19_Witness ==
    /\ contract = "SecurePairContract"
    /\ op.name = "burn" /\ op.who = CONTRACT /\ op.x0 = 70 /\ ret.ok
    /\ ret.v0 = 50 /\ ret.v1 = 99
    /\ reserve_0 = 10050 /\ reserve_1 = 20001
    /\ total_supply = 14042
    /\ balances[CONTRACT] = 0

---------------------------------------------------------------------------
\* Vocabulary of the fee properties.

collected_fees == ecosystem.dex.collected_fees
\* The nominal fee of a trade of amount_in: what the 995/1000 discount takes off.
NominalFee(amount_in) ==
    amount_in - (amount_in * DEX_FEE_NUMERATOR) \div DEX_FEE_DENOMINATOR
\* A successful trade credited protocol and rewards with their floored shares of its
\* fee, and all three portions together with no more than the fee.
C20_TradeCredits(fee) ==
    /\ collected_fees'.protocol_fees =
          collected_fees.protocol_fees + (fee * ecosystem.config.protocol_fee_share) \div 100
    /\ collected_fees'.rewards_fees =
          collected_fees.rewards_fees + (fee * ecosystem.config.rewards_fee_share) \div 100
    /\ (collected_fees'.lp_fees - collected_fees.lp_fees)
          + (collected_fees'.protocol_fees - collected_fees.protocol_fees)
          + (collected_fees'.rewards_fees - collected_fees.rewards_fees) <= fee

\* C20 as stated: a trade that succeeds credits protocol and rewards with
\* floor(fee * share / 100) of its nominal fee, the credited portions add up to at
\* most the fee, and no other call changes the accumulated protocol or rewards fees.
C20_OnlySwapsChangeFees ==
    [][IsCall =>
         IF op'.name = "execute_trade" /\ ret'.ok
         THEN C20_TradeCredits(NominalFee(op'.x0))
         ELSE /\ collected_fees'.protocol_fees = collected_fees.protocol_fees
              /\ collected_fees'.rewards_fees = collected_fees.rewards_fees]_vars

\* C20 amended: as above, except that the monthly rewards distribution resets the
\* accumulated rewards fees to zero (and leaves the protocol fees alone).
C20_SwapsCreditDistributionResets ==
    [][IsCall =>
         IF op'.name = "execute_trade" /\ ret'.ok
         THEN C20_TradeCredits(NominalFee(op'.x0))
         ELSE /\ collected_fees'.protocol_fees = collected_fees.protocol_fees
              /\ IF op'.name = "distribute_monthly_rewards"
                 THEN collected_fees'.rewards_fees = 0
                 ELSE collected_fees'.rewards_fees = collected_fees.rewards_fees]_vars

\* C20's case: trades of 1000 (fee 5, split 3 + 1 + 1) and of 199 (fee 1, every
\* portion floors to 0), then the distribution that paid the rewards fee out.
C20_Witness ==
    /\ op.name = "distribute_monthly_rewards"
    /\ ret.v0 = 1
    /\ collected_fees = [lp_fees |-> 3, protocol_fees |-> 1, rewards_fees |-> 0]
    /\ ecosystem.dex.total_volume_24h = 1199
    /\ ecosystem.trading_rewards.monthly_pool = 0

---------------------------------------------------------------------------
\* Vocabulary of the factory properties.

\* The ordered token pairs that have a pair contract.
RegisteredPairs == {k \in AccountIds \X AccountIds : factory.get_pair[k] # None}
FactoryAdmin == <<factory.fee_to, factory.fee_to_setter>>

\* C21: get_pair is symmetric in its two tokens, every unordered token pair has at
\* most one entry in all_pairs, creating a pair that exists in either order fails
\* with PairExists, all_pairs_length grows by one with each successful creation and
\* by nothing else, and a failed creation leaves the factory as it was.
C21_PairsRegisteredOnce ==
    /\ [](/\ \A a \in AccountIds, b \in AccountIds :
                factory.get_pair[<<a, b>>] = factory.get_pair[<<b, a>>]
          /\ \A i \in 1..all_pairs_length(factory), j \in 1..all_pairs_length(factory) :
                factory.all_pairs[i] = factory.all_pairs[j] => i = j
          /\ 2 * all_pairs_length(factory) = Cardinality(RegisteredPairs))
    /\ [][IsCall =>
            IF op'.name = "create_pair"
            THEN /\ (<<op'.x0, op'.x1>> \in RegisteredPairs
                        \/ <<op'.x1, op'.x0>> \in RegisteredPairs)
                    => (~ret'.ok /\ ret'.err = "PairExists")
                 /\ ret'.ok => all_pairs_length(factory') = all_pairs_length(factory) + 1
                 /\ ~ret'.ok => factory' = factory
            ELSE all_pairs_length(factory') = all_pairs_length(factory)]_vars

\* C21's case: with two pairs created, creating the first again with its tokens in
\* the other order was refused.
C21_Witness ==
    /\ op.name = "create_pair"
    /\ op.x0 > op.x1
    /\ ret.err = "PairExists"
    /\ all_pairs_length(factory) = 2
    /\ factory.get_pair[<<op.x1, op.x0>>] = factory.all_pairs[1]

\* C22: fee_to and fee_to_setter change only in a setter call made by the account
\* that is fee_to_setter at that moment; a setter call by any other account (the
\* setter of before a hand-over among them) fails with CallerIsNotFeeSetter; a
\* successful set_fee_to_setter(new) makes `new` the setter; a rejected call leaves
\* both fields as they were; fee_to_setter is never the zero address.
C22_OnlySetterChangesFees ==
    /\ [](factory.fee_to_setter # ZERO_ACCOUNT)
    /\ [][IsCall =>
            /\ FactoryAdmin' # FactoryAdmin
                  => /\ op'.name \in {"set_fee_to", "set_fee_to_setter"}
                     /\ op'.who = factory.fee_to_setter
            /\ (op'.name \in {"set_fee_to", "set_fee_to_setter"}
                   /\ op'.who # factory.fee_to_setter)
                  => (~ret'.ok /\ ret'.err = "CallerIsNotFeeSetter")
            /\ (op'.name = "set_fee_to_setter" /\ ret'.ok)
                  => factory'.fee_to_setter = op'.x0
            /\ (op'.name = "set_fee_to" /\ ret'.ok) => factory'.fee_to = op'.x0
            /\ ~ret'.ok => FactoryAdmin' = FactoryAdmin]_vars

\* C22's case: bob, the setter the factory was constructed with, has handed over to
\* alice, who set a fee recipient; bob's next set_fee_to was refused.
C22_Witness ==
    /\ op.name = "set_fee_to"
    /\ op.who = BOB
    /\ ret.err = "CallerIsNotFeeSetter"
    /\ factory.fee_to_setter = ALICE
    /\ factory.fee_to = CHARLIE

---------------------------------------------------------------------------
\* Vocabulary of the wrapper properties.

WrappedSum == SumOver(wnative.balances, AccountIds)

\* C23: the wrapper's total_supply is the sum of all balances in every reachable
\* state; a successful deposit of v raises the caller's balance and total_supply by
\* v, a successful withdraw of a lowers both by a, and a withdraw of more than the
\* caller's balance fails with InsufficientBalance and changes nothing.
C23_SupplyIsSumOfBalances ==
    /\ [](wnative.total_supply = WrappedSum)
    /\ [][IsCall =>
            /\ (op'.name = "deposit" /\ ret'.ok)
                  => /\ balance_of(wnative', op'.who) = balance_of(wnative, op'.who) + op'.x0
                     /\ wnative'.total_supply = wnative.total_supply + op'.x0
            /\ (op'.name = "withdraw" /\ ret'.ok)
                  => /\ balance_of(wnative', op'.who) = balance_of(wnative, op'.who) - op'.x0
                     /\ wnative'.total_supply = wnative.total_supply - op'.x0
            /\ (op'.name = "withdraw" /\ op'.x0 > balance_of(wnative, op'.who))
                  => /\ ~ret'.ok
                     /\ ret'.err = "InsufficientBalance"
                     /\ wnative' = wnative]_vars

\* C23's case: alice wrapped 200 and sent 100 of them to bob; her withdraw of 200
\* was refused.
C23_Witness ==
    /\ op.name = "withdraw"
    /\ op.who = ALICE
    /\ op.x0 = 200
    /\ ret.err = "InsufficientBalance"
    /\ wnative.total_supply = 200
    /\ balance_of(wnative, ALICE) = 100
    /\ balance_of(wnative, BOB) = 100

\* C24: the wrapper is healthy in every reachable state, so after every deposit and
\* every withdraw, failed or not: its native balance is at least total_supply.
C24_FullyBacked == is_healthy(wnative)

\* C24's case: a withdraw that paid out part of what is wrapped.
C24_Witness ==
    /\ op.name = "withdraw"
    /\ ret.ok
    /\ wnative.total_supply = 100
    /\ wnative.native_balance = 100

\* C25: a transfer_from that succeeds moves `value` from the owner to the recipient
\* and lowers the spender's allowance by `value`; one that fails changes no balance
\* and no allowance.
C25_TransferFromAllOrNothing ==
    [][(IsCall /\ op'.name = "transfer_from") =>
          LET spender == op'.who
              from == op'.y0
              to == op'.y1
              value == op'.x0
          IN  IF ret'.ok
              THEN /\ balance_of(wnative', from) = balance_of(wnative, from) - value
                   /\ balance_of(wnative', to) = balance_of(wnative, to) + value
                   /\ allowance(wnative', from, spender)
                         = allowance(wnative, from, spender) - value
              ELSE /\ wnative'.balances = wnative.balances
                   /\ wnative'.allowances = wnative.allowances]_vars

---------------------------------------------------------------------------
\* Vocabulary of the governance properties.

Proposals == DOMAIN staking.proposals
Tally(p) == <<p.votes_for, p.votes_against>>
\* The call just made is `name` on proposal `id`.
OnProposal(name, id) == IsCall /\ op'.name = name /\ op'.x0 = id
\* The stake an account votes with: its amount while active, else nothing.
ActiveStake(account) ==
    IF staking.stakes[account].present /\ staking.stakes[account].active
    THEN staking.stakes[account].amount
    ELSE 0

C27_OneVotePerAccount ==
    [][\A id \in Proposals :
          LET p == staking.proposals[id]
              q == staking'.proposals[id]
              voter == op'.who
              voted == <<id, voter>> \in staking.user_votes
              votable == /\ ~staking.paused
                         /\ p.active
                         /\ staking.block_timestamp <= p.voting_deadline
          IN  IF OnProposal("vote", id)
              THEN /\ ret'.ok
                         => /\ ~voted
                            /\ ActiveStake(voter) > 0
                            /\ Tally(q) = IF op'.y0 = 1
                                          THEN <<p.votes_for + ActiveStake(voter),
                                                 p.votes_against>>
                                          ELSE <<p.votes_for,
                                                 p.votes_against + ActiveStake(voter)>>
                            /\ <<id, voter>> \in staking'.user_votes
                   /\ voted => /\ ~ret'.ok
                               /\ Tally(q) = Tally(p)
                               /\ votable => ret'.err = "AlreadyVoted"
                   /\ ActiveStake(voter) = 0 => (~ret'.ok /\ Tally(q) = Tally(p))
              ELSE Tally(q) = Tally(p)]_vars

\* C27's case: alice voted for a proposal with her stake and her second vote, cast
\* against it, was refused and not counted.
C27_Witness ==
    /\ op.name = "vote"
    /\ op.y0 = 0
    /\ ret.err = "AlreadyVoted"
    /\ op.x0 \in Proposals
    /\ Tally(staking.proposals[op.x0]) = <<ActiveStake(op.who), 0>>
    /\ ActiveStake(op.who) = MIN_PROPOSAL_POWER

\* C28: current_proposal_fee changes only in a successful execute_proposal of a
\* fee-change proposal with votes_for > votes_against, at or after its deadline,
\* and is then the fee that was proposed; every such execution sets it, and every
\* other step leaves it as it was.
C28_FeeChangesOnlyByApprovedProposal ==
    [][LET fee_change(id) ==
               /\ OnProposal("execute_proposal", id)
               /\ ret'.ok
               /\ staking.proposals[id].new_fee_amount # None
               /\ staking.proposals[id].votes_for > staking.proposals[id].votes_against
       IN  IF \E id \in Proposals : fee_change(id)
           THEN \A id \in Proposals :
                    fee_change(id)
                       => /\ staking'.current_proposal_fee =
                                 staking.proposals[id].new_fee_amount
                          /\ staking.block_timestamp >= staking.proposals[id].voting_deadline
           ELSE staking'.current_proposal_fee = staking.current_proposal_fee]_vars

\* C28's case: the proposal to halve the fee was voted for and executed after its
\* deadline, and the fee is the proposed one.
C28_Witness ==
    /\ op.name = "execute_proposal"
    /\ ret.ok
    /\ staking.proposals[op.x0].new_fee_amount = PROPOSAL_FEE \div 2
    /\ staking.current_proposal_fee = PROPOSAL_FEE \div 2
    /\ staking.block_timestamp > staking.proposals[op.x0].voting_deadline

\* C29: track_trading_volume records volume only when the authorized router calls
\* it on an un-paused contract for a non-zero trader who is not blacklisted, with a
\* volume of at least min_trade_volume, not within trade_cooldown of that trader's
\* previous recorded trade, and with the trader's daily volume staying within
\* max_daily_volume; a rejected call leaves every trading position and the
\* active-trader count as they were.
Recorded == IsCall /\ op'.name = "track_trading_volume" /\ ret'.ok
Rejected == IsCall /\ op'.name = "track_trading_volume" /\ ~ret'.ok
WithinCooldown(position) ==
    /\ position.present
    /\ trading_rewards.block_timestamp - position.last_trade_timestamp < trading_rewards.trade_cooldown
C29_VolumeRecordedOnlyWhenAllowed ==
    [][/\ Recorded =>
            /\ op'.who = trading_rewards.authorized_router
            /\ ~trading_rewards.paused
            /\ op'.y0 # ZERO_ACCOUNT
            /\ ~trading_rewards.blacklisted_addresses[op'.y0]
            /\ op'.x0 >= trading_rewards.min_trade_volume
            /\ ~WithinCooldown(trading_rewards.trading_positions[op'.y0])
            /\ trading_rewards'.trading_positions[op'.y0].daily_volume <= trading_rewards.max_daily_volume
            /\ trading_rewards'.trading_positions[op'.y0].total_volume
                   = trading_rewards.trading_positions[op'.y0].total_volume + op'.x0
       /\ Rejected =>
            /\ trading_rewards'.trading_positions = trading_rewards.trading_positions
            /\ trading_rewards'.active_trader_count = trading_rewards.active_trader_count]_vars

\* C30: the secure router accepts a caller's nonce only if it is exactly one
\* greater than that caller's last accepted nonce, which it then becomes: no nonce
\* is accepted twice, a caller's accepted nonces grow by one each time, and a call
\* of one caller leaves the other callers' nonces alone.
Nonced == {"use_nonce", "secure_add_liquidity"}
C30_NoncesStrictlySequentialPerCaller ==
    [][IsCall =>
         \A user \in RouterUsers :
            LET last == current_nonce(secure_router, user)
                now == current_nonce(secure_router', user)
            IN  /\ now \in {last, last + 1}
                /\ now # last =>
                       /\ op'.name \in Nonced
                       /\ op'.who = user
                       /\ op'.y0 = last + 1
                /\ (op'.name \in Nonced /\ op'.who = user /\ ret'.ok) =>
                       /\ op'.y0 = last + 1
                       /\ now = op'.y0
                /\ (op'.name \in Nonced /\ op'.who = user /\ op'.y0 # last + 1) =>
                       ~ret'.ok]_vars

\* user1 has had the nonces 1 and 2 accepted, the second one with a deposit, while
\* user2 has had one accepted.
C30_Witness ==
    /\ op.name = "secure_add_liquidity" /\ op.who = "user1" /\ op.y0 = 2 /\ ret.ok
    /\ current_nonce(secure_router, "user1") = 2
    /\ current_nonce(secure_router, "user2") = 1

\* C31: a secure_add_liquidity call that is rejected leaves the caller's nonce as
\* it was, so that the same nonce is still accepted by the caller's next valid call.
C31_RejectedCallKeepsNonce ==
    [][(IsCall /\ op'.name = "secure_add_liquidity" /\ ~ret'.ok)
          => current_nonce(secure_router', op'.who) = current_nonce(secure_router, op'.who)]_vars

\* C32: stake, unstake, claim_rewards and distribute_trading_rewards_paginated
\* leave the staking lock free whenever they return, with Ok or with an error, so
\* that no later call is refused with Reentrancy because an earlier one failed.
LockTakers == {"stake", "unstake", "claim_rewards", "distribute_trading_rewards_paginated"}
C32_StakingLockFreeOnReturn ==
    [][(IsCall /\ op'.name \in LockTakers /\ ~staking.locked) => ~staking'.locked]_vars

\* C34: after any sequence of stake and unstake calls, total_staked is the sum of
\* the amounts of the active stakes and active_stakers is the number of accounts
\* with an active stake (of which an account has at most one: its entry in `stakes`).
ActiveAccounts == {a \in AccountIds : staking.stakes[a].present /\ staking.stakes[a].active}
C34_StakeTotalsMatchActiveStakes ==
    /\ staking.total_staked = SumOver([a \in AccountIds |-> staking.stakes[a].amount],
                                      ActiveAccounts)
    /\ staking.active_stakers = Cardinality(ActiveAccounts)

\* Alice and bob have staked and one of them has unstaked again.
C34_Witness ==
    /\ op.name = "unstake" /\ ret.ok
    /\ Cardinality(ActiveAccounts) = 1
    /\ staking.total_staked = MIN_STAKE

\* C36: across any sequence of distribute_trading_rewards_paginated calls, the
\* total credited to the stakers' pending_rewards stays within the total that
\* entered trading_rewards_pool (what is in the pool and what left it as distributed).
EnteredPool == staking.trading_rewards_pool + staking.total_trading_rewards_distributed
C36_CreditedWithinFundedPool == credited <= EnteredPool

\* C37: whenever claim_rewards resets a staker's pending_rewards to zero, the amount
\* it transfers to the staker includes the pending_rewards it reset.
C37_ClaimPaysPendingRewards ==
    [][(/\ IsCall /\ op'.name = "claim_rewards"
        /\ staking.stakes[op'.who].pending_rewards > 0
        /\ staking'.stakes[op'.who].pending_rewards = 0)
          => /\ ret'.v0 >= staking.stakes[op'.who].pending_rewards
             /\ staking.native_balance - staking'.native_balance = ret'.v0]_vars

\* C35: the tally that decides a proposal is final: at no time are both a vote on a
\* proposal and execute_proposal of that proposal accepted, so that no vote is
\* counted once the execution has become possible.
VoteAccepted(proposal_id) ==
    \E caller \in StakingCallers, in_favor \in BOOLEAN :
        vote(staking, caller, proposal_id, in_favor).ok
ExecuteAccepted(proposal_id) == execute_proposal(staking, proposal_id).ok
C35_NoVoteOnceExecutable ==
    \A proposal_id \in ProposalIds :
        ~(VoteAccepted(proposal_id) /\ ExecuteAccepted(proposal_id))

\* C33: distribute_rewards and claim_rewards of the trading rewards leave the
\* reentrancy guard free when they return, with Ok or with an error, so that no
\* later call is rejected with ReentrancyGuardActive: the calls of this state
\* machine are never nested.
GuardedPayouts == {"distribute_rewards", "claim_rewards"}
C33_GuardFreeOnReturn ==
    /\ op.name \in GuardedPayouts => ~trading_rewards.reentrancy_guard
    /\ ret.err # "ReentrancyGuardActive"

\* C38: total_distributed never exceeds what the traders hold as pending_rewards
\* plus what they have claimed.
OwedToTraders ==
    SumOver([a \in AccountIds |-> trading_rewards.trading_positions[a].pending_rewards
                                   + trading_rewards.trading_positions[a].claimed_rewards],
            AccountIds)
C38_DistributedWithinTraderRewards ==
    trading_rewards.total_distributed <= OwedToTraders

\* C39: a funded pool can trade: in the state reached by a successful first mint
\* of the PairContract there is a swap call with a non-zero requested output that
\* returns Ok and updates the reserves.  swap takes no input amount and reads no
\* token balance, so an input supplied beforehand changes nothing of the call; the
\* requested outputs are every amount of one asset, and every equal amount of both.
FirstMintSucceeded ==
    /\ contract = "PairContract"
    /\ op.name = "mint" /\ ret.ok
    /\ total_supply = ret.v0 + MINIMUM_LIQUIDITY
RequestedOutputs ==
    {<<a, 0>> : a \in 1 .. reserve_0} \cup {<<0, a>> : a \in 1 .. reserve_1}
        \cup {<<a, a>> : a \in 1 .. min(reserve_0, reserve_1)}
SwapSucceeds(amount_0_out, amount_1_out, to) ==
    LET r == swap(Self, block_timestamp, amount_0_out, amount_1_out, to)
    IN  r.ok /\ <<r.st.reserve_0, r.st.reserve_1>> # <<reserve_0, reserve_1>>
C39_FundedPoolCanTrade ==
    FirstMintSucceeded =>
        \E a \in RequestedOutputs, to \in Recipients : SwapSucceeds(a[1], a[2], to)

====
